---------------------------- MODULE Spec2Model ----------------------------
(***************************************************************************)
(* A state-machine model of the CBT chatbot frontend:                      *)
(*   - the HTTP client wrapper          (src/src/lib/api.ts, 1-282)        *)
(*   - the auth state container         (src/src/lib/auth-context.tsx)     *)
(*   - the chat/session state container (src/src/lib/chat-context.tsx)     *)
(* The browser runs one event at a time: every action below is one event   *)
(* (a call of a handler up to its first await, or the continuation that    *)
(* runs when an awaited backend request settles).                          *)
(***************************************************************************)
EXTENDS Integers, Sequences, FiniteSets, TLC

VARIABLES
    \* browser storage (localStorage keys)
    ls_access_token, ls_refresh_token, ls_checkInSessionId, ls_cbtSessionId,
    \* window.location after a hard redirect
    location,
    \* HTTP client: the intercepted calls
    httpCalls,
    \* auth container (AuthProvider)
    user, isLoading, route, authRequests,
    \* auth container: inactivityTimerRef and the timers pending in the browser
    inactivityTimer,
    \* chat container (ChatProvider): check-in flow
    checkInSessionId, checkInMessages, checkInNextSteps, checkInLoading,
    \* chat container: CBT flow
    cbtSessionId, cbtMessages, cbtNextSteps, cbtLoading,
    \* chat container: survey sub-flow
    surveyMode, surveyQuestionnaireOptions, currentSurveyQuestion,
    currentQuestionIndex, totalQuestions, possibleAnswers,
    currentQuestionnaireId, surveyResults,
    \* backend requests awaited by handlers of the chat container, per flow
    checkInRequests, cbtRequests,
    \* chat container: hasRegisteredClearChatState.current, set by the effects of
    \* ChatProvider's mount
    hasRegisteredClearChatState,
    \* the last event that ran (handler call or settled request), with its inputs
    ev

tokenVars == <<ls_access_token, ls_refresh_token>>
httpVars == <<location, httpCalls>>
authVars == <<user, isLoading, route, authRequests, inactivityTimer>>
checkInVars == <<checkInSessionId, checkInMessages, checkInNextSteps, checkInLoading,
                 checkInRequests, ls_checkInSessionId>>
cbtVars == <<cbtSessionId, cbtMessages, cbtNextSteps, cbtLoading, cbtRequests,
             ls_cbtSessionId>>
surveyVars == <<surveyMode, surveyQuestionnaireOptions, currentSurveyQuestion,
                currentQuestionIndex, totalQuestions, possibleAnswers,
                currentQuestionnaireId, surveyResults>>
chatVars == <<checkInVars, cbtVars, surveyVars>>
vars == <<tokenVars, httpVars, authVars, chatVars, hasRegisteredClearChatState, ev>>

\* JavaScript null / undefined / absent storage key
Null == "null"

-----------------------------------------------------------------------------
(***************************************************************************)
(* Bounds of the model                                                     *)
(***************************************************************************)
\* number of intercepted calls that may be issued
MaxCalls == 2
\* deepest nesting of refresh exchanges inside one call
MaxDepth == 3
\* longest transcript of a chat flow
MaxMessages == 3
\* most backend requests of one chat flow in flight
MaxRequests == 2
\* most backend requests of the auth container in flight
MaxAuthRequests == 2
\* longest transcript a send is added to when both flows run side by side
MaxFlowMessages == 2

-----------------------------------------------------------------------------
(***************************************************************************)
(* HTTP client wrapper: api.interceptors.response.use                      *)
(***************************************************************************)
\* token pairs the backend hands out
TokenPairs == { [access_token |-> "a1", refresh_token |-> "r1"],
                [access_token |-> "a2", refresh_token |-> "r2"] }

\* HTTP statuses the backend answers with
HttpOk == 200
HttpUnauthorized == 401
HttpServerError == 500
Statuses == {HttpOk, HttpUnauthorized, HttpServerError}

\* a request configuration: what it asks for and its _retry mark
Frame(kind) == [kind |-> kind, retry |-> FALSE]

IdleCall == [stack |-> <<>>, outcome |-> "idle", got401 |-> FALSE,
             refreshes |-> 0, replays |-> 0, redirected |-> FALSE]

\* the request of call c that is on the wire (the innermost one)
Top(c) == httpCalls[c].stack[Len(httpCalls[c].stack)]
Depth(c) == Len(httpCalls[c].stack)

\* the caller issues a request through the api instance
HttpRequest(c) ==
    /\ httpCalls[c].outcome = "idle"
    /\ httpCalls' = [httpCalls EXCEPT ![c] =
                        [@ EXCEPT !.stack = <<Frame("orig")>>, !.outcome = "pending"]]
    /\ ev' = [op |-> "request", call |-> c, status |-> 0]
    /\ UNCHANGED <<ls_access_token, ls_refresh_token, location, authVars, chatVars>>
    /\ UNCHANGED hasRegisteredClearChatState

\* (response) => response, at the outermost request: the caller gets the response
HttpDeliver(c) ==
    /\ httpCalls' = [httpCalls EXCEPT ![c] = [@ EXCEPT !.stack = <<>>, !.outcome = "ok"]]
    /\ UNCHANGED <<ls_access_token, ls_refresh_token, location>>

\* the refresh exchange of the enclosing handler resolved: store the new pair and
\* replay the enclosing request (api.ts 76-86)
HttpStoreAndReplay(c, pair) ==
    /\ ls_access_token' = pair.access_token
    /\ ls_refresh_token' = pair.refresh_token
    /\ httpCalls' = [httpCalls EXCEPT ![c] =
          [@ EXCEPT !.stack = SubSeq(@, 1, Len(@) - 1),
                    !.replays = IF Depth(c) = 2 THEN @ + 1 ELSE @]]
    /\ UNCHANGED location

\* Promise.reject leaving the handler of the request at depth k: every enclosing
\* handler is awaiting it inside its try block and runs its catch (api.ts 87-93)
HttpReject(c, k, redirectFirst) ==
    /\ httpCalls' = [httpCalls EXCEPT ![c] =
          [@ EXCEPT !.stack = <<>>, !.outcome = "error", !.got401 = TRUE,
                    !.redirected = @ \/ redirectFirst \/ k > 1]]
    /\ IF k > 1
         THEN /\ ls_access_token' = Null
              /\ ls_refresh_token' = Null
         ELSE UNCHANGED <<ls_access_token, ls_refresh_token>>
    /\ location' = IF redirectFirst \/ k > 1 THEN "/login" ELSE location

\* a rejection that is not a first 401: api.ts 96
HttpRejectPlain(c, k) ==
    /\ httpCalls' = [httpCalls EXCEPT ![c] =
          [@ EXCEPT !.stack = <<>>, !.outcome = "error",
                    !.redirected = @ \/ k > 1]]
    /\ IF k > 1
         THEN /\ ls_access_token' = Null
              /\ ls_refresh_token' = Null
              /\ location' = "/login"
         ELSE UNCHANGED <<ls_access_token, ls_refresh_token, location>>

\* first 401 of a request, refresh token in storage: api.post('/auth/refresh')
HttpRefresh(c) ==
    /\ httpCalls' = [httpCalls EXCEPT ![c] =
          [@ EXCEPT !.stack = Append([@ EXCEPT ![Len(@)].retry = TRUE], Frame("refresh")),
                    !.got401 = TRUE,
                    !.refreshes = @ + 1]]
    /\ UNCHANGED <<ls_access_token, ls_refresh_token, location>>

\* the error handler of the response interceptor (api.ts 56-97)
HttpOnError(c, status) ==
    IF status = HttpUnauthorized /\ ~Top(c).retry
      THEN IF ls_refresh_token = Null
             THEN HttpReject(c, Depth(c), TRUE)
             ELSE HttpRefresh(c)
      ELSE HttpRejectPlain(c, Depth(c))

\* the backend answers the request of call c that is on the wire
HttpAnswer(c, status, pair) ==
    /\ httpCalls[c].outcome = "pending"
    \* bound of the model: the innermost refresh exchange allowed is not answered 401
    /\ (status = HttpUnauthorized /\ ~Top(c).retry) => Depth(c) < MaxDepth
    /\ ev' = [op |-> "answer", call |-> c, status |-> status]
    /\ UNCHANGED <<authVars, chatVars>>
    /\ IF status = HttpOk
         THEN IF Depth(c) = 1 THEN HttpDeliver(c) ELSE HttpStoreAndReplay(c, pair)
         ELSE HttpOnError(c, status)
    /\ UNCHANGED hasRegisteredClearChatState

-----------------------------------------------------------------------------
(***************************************************************************)
(* Chat/session state container: ChatProvider (chat-context.tsx)           *)
(***************************************************************************)
\* the user record of the auth container, as far as the chat container reads it
UserId == "u1"

\* what the backend can put in a chat response
\* reply texts, as sequences of characters like the texts a user types
Replies == {<<"a">>, <<"b">>}
SessionIds == {"s1", "s2"}
\* next_steps of a response; an absent list and an empty one take the same branch
NextStepLists == {<<>>, <<"breathing">>}
ChatResponses == [response : Replies, session_id : SessionIds, next_steps : NextStepLists]
\* error statuses of a failed chat request
ChatErrors == {HttpServerError, 400}

\* texts a caller may pass to send-message: sequences of characters
MessageInputs == {<<>>, <<" ">>, <<"h">>, <<" ", "h">>}

\* String.prototype.trim
RECURSIVE TrimStart(_)
TrimStart(m) == IF m # <<>> /\ Head(m) = " " THEN TrimStart(Tail(m)) ELSE m
RECURSIVE TrimEnd(_)
TrimEnd(m) == IF m # <<>> /\ m[Len(m)] = " " THEN TrimEnd(SubSeq(m, 1, Len(m) - 1)) ELSE m
Trim(m) == TrimEnd(TrimStart(m))

\* const botMessage / userMessage: Message = { id, content, sender, timestamp }
Message(id, content, sender) == [id |-> id, content |-> content, sender |-> sender]

\* response.next_steps.map((step, index) => ({ id, label, action }))
MapNextSteps(steps) ==
    [i \in 1..Len(steps) |->
        [id |-> <<"step", i - 1>>, label |-> steps[i], action |-> <<"Start ", steps[i]>>]]

\* if (response.next_steps && response.next_steps.length > 0) setNextSteps(...)
NextStepsAfter(current, resp) ==
    IF Len(resp.next_steps) > 0 THEN MapNextSteps(resp.next_steps) ELSE current

\* the steps a caller may pass to next-step selection
NextStepInputs == UNION { {MapNextSteps(l)[i] : i \in 1..Len(l)} : l \in NextStepLists }

\* the body api.post sends: message ?? '', session_id, mode
ChatRequest(op, message, sessionId, mode) ==
    [op |-> op, message |-> message, session_id |-> sessionId, mode |-> mode]

\* Mirror that never writes
Mirror_Never(old, new, stored) == stored

\* the effect that mirrors a session id to localStorage when it changes
\* (chat-context.tsx 140-154): setItem when set, removeItem when null
Mirror(old, new, stored) == IF new # old THEN new ELSE stored

RemoveAt(seq, i) == SubSeq(seq, 1, i - 1) \o SubSeq(seq, i + 1, Len(seq))

\* message ?? '' (api.ts 153): the text sent for a typed message or for none
ChatText(m) == [kind |-> "text", text |-> m]
NoMessage == ChatText(<<>>)

\* what the chat container shows of a flow: the session id, the transcript and the
\* next-step suggestions, and for the check-in flow the fields of its survey
\* (chat-context.tsx 102-121)
CheckInFields ==
    [sessionId |-> checkInSessionId, messages |-> checkInMessages,
     nextSteps |-> checkInNextSteps,
     survey |-> <<surveyMode, surveyQuestionnaireOptions, currentSurveyQuestion,
                  currentQuestionIndex, totalQuestions, possibleAnswers,
                  currentQuestionnaireId, surveyResults>>]
CbtFields ==
    [sessionId |-> cbtSessionId, messages |-> cbtMessages, nextSteps |-> cbtNextSteps]

\* ---- check-in flow ---------------------------------------------------------

\* startNewCheckIn up to its await (chat-context.tsx 196-205), given that the
\* user test passed, with `pending` the requests in flight before it
StartNewCheckInBody(pending) ==
    /\ checkInSessionId' = Null
    /\ checkInMessages' = <<>>
    /\ checkInNextSteps' = <<>>
    /\ checkInRequests' = Append(pending, ChatRequest("startNew", NoMessage, Null, "non-clinical"))

\* StartNewCheckIn that empties the CBT transcript as well
StartNewCheckIn_ClearsBoth ==
    /\ user # Null => Len(checkInRequests) < MaxRequests
    /\ ev' = [op |-> "startNewCheckIn",
              accepted |-> user # Null, before |-> CheckInFields]
    /\ IF user = Null
         THEN UNCHANGED <<checkInVars, cbtVars>>
         ELSE /\ StartNewCheckInBody(checkInRequests)
              /\ checkInLoading' = TRUE
              /\ ls_checkInSessionId' = Mirror(checkInSessionId, Null, ls_checkInSessionId)
              /\ cbtMessages' = <<>>
              /\ cbtNextSteps' = <<>>
              /\ UNCHANGED <<cbtSessionId, cbtLoading, cbtRequests, ls_cbtSessionId>>
    /\ UNCHANGED <<tokenVars, httpVars, authVars, surveyVars>>
    /\ UNCHANGED hasRegisteredClearChatState

\* startNewCheckIn called by a page or by any consumer of the context
StartNewCheckIn ==
    /\ user # Null => Len(checkInRequests) < MaxRequests
    /\ ev' = [op |-> "startNewCheckIn",
              accepted |-> user # Null, before |-> CheckInFields]
    /\ IF user = Null
         THEN UNCHANGED checkInVars
         ELSE /\ StartNewCheckInBody(checkInRequests)
              /\ checkInLoading' = TRUE
              /\ ls_checkInSessionId' = Mirror(checkInSessionId, Null, ls_checkInSessionId)
    /\ UNCHANGED <<tokenVars, httpVars, authVars, cbtVars, surveyVars>>
    /\ UNCHANGED hasRegisteredClearChatState

\* resumeCheckIn up to its await (chat-context.tsx 232-238)
ResumeCheckIn ==
    /\ (user # Null /\ checkInSessionId # Null) => Len(checkInRequests) < MaxRequests
    /\ ev' = [op |-> "resumeCheckIn",
              accepted |-> user # Null /\ checkInSessionId # Null, before |-> CheckInFields]
    /\ IF user = Null \/ checkInSessionId = Null
         THEN UNCHANGED checkInVars
         ELSE /\ checkInLoading' = TRUE
              /\ checkInRequests' = Append(checkInRequests,
                     ChatRequest("resume", NoMessage, checkInSessionId, "non-clinical"))
              /\ UNCHANGED <<checkInSessionId, checkInMessages, checkInNextSteps,
                             ls_checkInSessionId>>
    /\ UNCHANGED <<tokenVars, httpVars, authVars, cbtVars, surveyVars>>
    /\ UNCHANGED hasRegisteredClearChatState

\* SendCheckInAccepted without the test of the loading flag
SendCheckInAccepted_NoLoadingTest(message) ==
    ~(user = Null \/ Trim(message) = <<>>)

\* SendCheckInAccepted testing the message without trimming it
SendCheckInAccepted_NoTrim(message) ==
    ~(user = Null \/ message = <<>> \/ checkInLoading)

\* the test that lets sendCheckInMessage through (chat-context.tsx 271)
SendCheckInAccepted(message) ==
    ~(user = Null \/ Trim(message) = <<>> \/ checkInLoading)

\* sendCheckInMessage up to its await (chat-context.tsx 270-285)
SendCheckInMessage(message) ==
    /\ SendCheckInAccepted(message) =>
          (Len(checkInRequests) < MaxRequests /\ Len(checkInMessages) < MaxMessages)
    /\ ev' = [op |-> "sendCheckInMessage", message |-> message,
              accepted |-> SendCheckInAccepted(message), before |-> CheckInFields]
    /\ IF ~SendCheckInAccepted(message)
         THEN UNCHANGED checkInVars
         ELSE /\ checkInMessages' = Append(checkInMessages, Message("user", message, "user"))
              /\ checkInLoading' = TRUE
              /\ checkInNextSteps' = <<>>
              /\ checkInRequests' = Append(checkInRequests,
                     ChatRequest("send", ChatText(message), checkInSessionId, "non-clinical"))
              /\ UNCHANGED <<checkInSessionId, ls_checkInSessionId>>
    /\ UNCHANGED <<tokenVars, httpVars, authVars, cbtVars, surveyVars>>
    /\ UNCHANGED hasRegisteredClearChatState

\* the test that lets handleCheckInNextStep through (chat-context.tsx 312)
CheckInNextStepAccepted == ~(user = Null \/ checkInLoading)

\* handleCheckInNextStep up to its await (chat-context.tsx 311-318)
HandleCheckInNextStep(step) ==
    /\ CheckInNextStepAccepted => Len(checkInRequests) < MaxRequests
    /\ ev' = [op |-> "handleCheckInNextStep", step |-> step,
              accepted |-> CheckInNextStepAccepted, before |-> CheckInFields]
    /\ IF ~CheckInNextStepAccepted
         THEN UNCHANGED checkInVars
         ELSE /\ checkInLoading' = TRUE
              /\ checkInNextSteps' = <<>>
              /\ checkInRequests' = Append(checkInRequests,
                     ChatRequest("next", ChatText(step.action), checkInSessionId, "non-clinical"))
              /\ UNCHANGED <<checkInSessionId, checkInMessages, ls_checkInSessionId>>
    /\ UNCHANGED <<tokenVars, httpVars, authVars, cbtVars, surveyVars>>
    /\ UNCHANGED hasRegisteredClearChatState

\* the rest of a check-in handler once its request resolved (try block after the
\* await, then finally): chat-context.tsx 207-228, 240-266, 287-307, 320-340
CheckInResolved(i, resp) ==
    LET req == checkInRequests[i] IN
    /\ req.op \in {"startNew", "resume", "send", "next"}
    /\ req.op # "startNew" => Len(checkInMessages) < MaxMessages
    /\ ev' = [op |-> "checkInResolved", handler |-> req.op, message |-> req.message,
              resp |-> resp]
    /\ checkInRequests' = RemoveAt(checkInRequests, i)
    /\ checkInMessages' =
          CASE req.op = "startNew" -> <<Message("welcome", resp.response, "bot")>>
            [] req.op = "resume" -> Append(checkInMessages, Message("resume", resp.response, "bot"))
            [] OTHER -> Append(checkInMessages, Message("bot", resp.response, "bot"))
    /\ checkInSessionId' = IF req.op = "startNew" THEN resp.session_id ELSE checkInSessionId
    /\ checkInNextSteps' = NextStepsAfter(checkInNextSteps, resp)
    /\ checkInLoading' = FALSE
    /\ ls_checkInSessionId' = Mirror(checkInSessionId, checkInSessionId', ls_checkInSessionId)
    /\ UNCHANGED <<tokenVars, httpVars, authVars, cbtVars, surveyVars>>
    /\ UNCHANGED hasRegisteredClearChatState

\* CheckInRejected whose resume branch drops the session id without starting anew
CheckInRejected_NoFallback(i, status) ==
    LET req == checkInRequests[i] IN
    /\ req.op \in {"startNew", "resume", "send", "next"}
    /\ ev' = [op |-> "checkInRejected", handler |-> req.op]
    /\ checkInRequests' = RemoveAt(checkInRequests, i)
    /\ checkInSessionId' = IF req.op = "resume" THEN Null ELSE checkInSessionId
    /\ ls_checkInSessionId' = IF req.op = "resume" THEN Null ELSE ls_checkInSessionId
    /\ checkInLoading' = FALSE
    /\ UNCHANGED <<checkInMessages, checkInNextSteps>>
    /\ UNCHANGED <<tokenVars, httpVars, authVars, cbtVars, surveyVars>>
    /\ UNCHANGED hasRegisteredClearChatState

\* the catch and finally blocks of a check-in handler whose request was rejected
\* (chat-context.tsx 224-228, 258-266, 303-307, 336-340); a failed resume drops
\* the session id and calls startNewCheckIn without awaiting it
CheckInRejected(i, status) ==
    LET req == checkInRequests[i] IN
    /\ req.op \in {"startNew", "resume", "send", "next"}
    /\ ev' = [op |-> "checkInRejected", handler |-> req.op]
    /\ IF req.op = "resume"
         THEN /\ StartNewCheckInBody(RemoveAt(checkInRequests, i))
              /\ ls_checkInSessionId' = Null
         ELSE /\ checkInRequests' = RemoveAt(checkInRequests, i)
              /\ UNCHANGED <<checkInSessionId, checkInMessages, checkInNextSteps,
                             ls_checkInSessionId>>
    /\ checkInLoading' = FALSE
    /\ UNCHANGED <<tokenVars, httpVars, authVars, cbtVars, surveyVars>>
    /\ UNCHANGED hasRegisteredClearChatState

\* ---- survey sub-flow --------------------------------------------------------

\* an optional field of a response: <<>> when absent, <<v>> when present
Absent == <<>>
Present(v) == <<v>>
\* a nullable number of the survey state: null, or the number
NoNumber == <<>>

Questions == {"q1", "q2"}
QuestionnaireIds == {"phq9", "gad7"}
QuestionnaireOptions == <<"phq9", "gad7">>
AnswerOptions == <<[score |-> 0, text |-> "no"], [score |-> 1, text |-> "yes"]>>
QuestionIndexes == {0, 1}
TotalQuestionCounts == {2}
SurveyResultValues == {"result"}

Optional(S) == {Absent} \cup {Present(v) : v \in S}

SurveyResponses ==
    [response : Questions,
     questionnaire_options : Optional({QuestionnaireOptions}),
     question_index : Optional(QuestionIndexes),
     total_questions : Optional(TotalQuestionCounts),
     possible_answers : Optional({AnswerOptions}),
     survey_results : Optional(SurveyResultValues)]

\* if (field present) setX(field): the new value of a state field
SetIfPresent(current, field) == IF field # Absent THEN field[1] ELSE current
SetNumberIfPresent(current, field) == IF field # Absent THEN field ELSE current

\* the scores a caller may pass to answer-question: a number, or a decimal string
ScoreInputs == { [type |-> "number", num |-> 1, str |-> <<>>],
                 [type |-> "string", num |-> 0, str |-> <<"2">>],
                 [type |-> "string", num |-> 0, str |-> <<"1", "0">>] }

DigitValue(ch) ==
    CASE ch = "0" -> 0 [] ch = "1" -> 1 [] ch = "2" -> 2 [] ch = "3" -> 3 [] ch = "4" -> 4
      [] ch = "5" -> 5 [] ch = "6" -> 6 [] ch = "7" -> 7 [] ch = "8" -> 8 [] ch = "9" -> 9

\* parseInt(str, 10) of a string of decimal digits
RECURSIVE ParseInt(_)
ParseInt(str) ==
    IF str = <<>> THEN 0
    ELSE 10 * ParseInt(SubSeq(str, 1, Len(str) - 1)) + DigitValue(str[Len(str)])

\* typeof answerScore === 'string' ? parseInt(answerScore, 10) : answerScore
NumericScore(answerScore) ==
    IF answerScore.type = "string" THEN ParseInt(answerScore.str) ELSE answerScore.num

\* startSurvey up to its await (chat-context.tsx 525-532)
StartSurvey ==
    /\ user # Null => Len(checkInRequests) < MaxRequests
    /\ ev' = [op |-> "startSurvey",
              accepted |-> user # Null, before |-> CheckInFields]
    /\ IF user = Null
         THEN UNCHANGED <<checkInVars, surveyVars>>
         ELSE /\ surveyMode' = TRUE
              /\ checkInLoading' = TRUE
              /\ checkInRequests' = Append(checkInRequests,
                     ChatRequest("startSurvey", NoMessage, checkInSessionId, "survey"))
              /\ UNCHANGED <<checkInSessionId, checkInMessages, checkInNextSteps,
                             ls_checkInSessionId, surveyQuestionnaireOptions,
                             currentSurveyQuestion, currentQuestionIndex, totalQuestions,
                             possibleAnswers, currentQuestionnaireId, surveyResults>>
    /\ UNCHANGED <<tokenVars, httpVars, authVars, cbtVars>>
    /\ UNCHANGED hasRegisteredClearChatState

\* the test that lets selectQuestionnaire through (chat-context.tsx 565)
SelectQuestionnaireAccepted == ~(user = Null \/ ~surveyMode)

\* selectQuestionnaire up to its await (chat-context.tsx 564-571)
SelectQuestionnaire(questionnaireId) ==
    /\ SelectQuestionnaireAccepted => Len(checkInRequests) < MaxRequests
    /\ ev' = [op |-> "selectQuestionnaire", questionnaireId |-> questionnaireId,
              accepted |-> SelectQuestionnaireAccepted, before |-> CheckInFields]
    /\ IF ~SelectQuestionnaireAccepted
         THEN UNCHANGED <<checkInVars, surveyVars>>
         ELSE /\ checkInLoading' = TRUE
              /\ currentQuestionnaireId' = questionnaireId
              /\ checkInRequests' = Append(checkInRequests,
                     ChatRequest("selectQuestionnaire",
                                 [kind |-> "select_questionnaire",
                                  questionnaire |-> questionnaireId],
                                 checkInSessionId, "survey"))
              /\ UNCHANGED <<checkInSessionId, checkInMessages, checkInNextSteps,
                             ls_checkInSessionId, surveyMode, surveyQuestionnaireOptions,
                             currentSurveyQuestion, currentQuestionIndex, totalQuestions,
                             possibleAnswers, surveyResults>>
    /\ UNCHANGED <<tokenVars, httpVars, authVars, cbtVars>>
    /\ UNCHANGED hasRegisteredClearChatState

\* the test that lets answerSurveyQuestion through (chat-context.tsx 595)
AnswerSurveyQuestionAccepted ==
    ~(user = Null \/ ~surveyMode \/ currentQuestionnaireId = Null
        \/ currentQuestionIndex = NoNumber)

\* answerSurveyQuestion up to its await (chat-context.tsx 594-608)
AnswerSurveyQuestion(answerScore) ==
    /\ AnswerSurveyQuestionAccepted => Len(checkInRequests) < MaxRequests
    /\ ev' = [op |-> "answerSurveyQuestion", answerScore |-> answerScore,
              accepted |-> AnswerSurveyQuestionAccepted, before |-> CheckInFields]
    /\ IF ~AnswerSurveyQuestionAccepted
         THEN UNCHANGED <<checkInVars, surveyVars>>
         ELSE /\ checkInLoading' = TRUE
              /\ checkInRequests' = Append(checkInRequests,
                     ChatRequest("answerSurveyQuestion",
                                 [kind |-> "answer",
                                  questionnaire |-> currentQuestionnaireId,
                                  index |-> currentQuestionIndex[1],
                                  score |-> NumericScore(answerScore)],
                                 checkInSessionId, "survey"))
              /\ UNCHANGED <<checkInSessionId, checkInMessages, checkInNextSteps,
                             ls_checkInSessionId, surveyVars>>
    /\ UNCHANGED <<tokenVars, httpVars, authVars, cbtVars>>
    /\ UNCHANGED hasRegisteredClearChatState

\* the rest of a survey handler once its request resolved, then finally
\* (chat-context.tsx 534-554 and 559, 573-585 and 589, 610-622 and 626)
SurveyResolved(i, resp) ==
    LET req == checkInRequests[i] IN
    /\ req.op \in {"startSurvey", "selectQuestionnaire", "answerSurveyQuestion"}
    /\ ev' = [op |-> "surveyResolved", handler |-> req.op,
              question_index |-> resp.question_index,
              survey_results |-> resp.survey_results]
    /\ checkInRequests' = RemoveAt(checkInRequests, i)
    /\ currentSurveyQuestion' = resp.response
    /\ surveyQuestionnaireOptions' =
          IF req.op = "startSurvey"
            THEN SetIfPresent(surveyQuestionnaireOptions, resp.questionnaire_options)
            ELSE surveyQuestionnaireOptions
    /\ currentQuestionIndex' = SetNumberIfPresent(currentQuestionIndex, resp.question_index)
    /\ totalQuestions' =
          IF req.op \in {"startSurvey", "selectQuestionnaire"}
            THEN SetNumberIfPresent(totalQuestions, resp.total_questions)
            ELSE totalQuestions
    /\ possibleAnswers' = SetIfPresent(possibleAnswers, resp.possible_answers)
    /\ surveyResults' =
          IF req.op \in {"startSurvey", "answerSurveyQuestion"}
            THEN SetIfPresent(surveyResults, resp.survey_results)
            ELSE surveyResults
    /\ checkInLoading' = FALSE
    /\ UNCHANGED <<surveyMode, currentQuestionnaireId, checkInSessionId, checkInMessages,
                   checkInNextSteps, ls_checkInSessionId>>
    /\ UNCHANGED <<tokenVars, httpVars, authVars, cbtVars>>
    /\ UNCHANGED hasRegisteredClearChatState

\* the catch and finally blocks of a survey handler whose request was rejected
\* (chat-context.tsx 555-560, 586-590, 623-627)
SurveyRejected(i, status) ==
    LET req == checkInRequests[i] IN
    /\ req.op \in {"startSurvey", "selectQuestionnaire", "answerSurveyQuestion"}
    /\ ev' = [op |-> "surveyRejected", handler |-> req.op]
    /\ checkInRequests' = RemoveAt(checkInRequests, i)
    /\ surveyMode' = IF req.op = "startSurvey" THEN FALSE ELSE surveyMode
    /\ checkInLoading' = FALSE
    /\ UNCHANGED <<surveyQuestionnaireOptions, currentSurveyQuestion, currentQuestionIndex,
                   totalQuestions, possibleAnswers, currentQuestionnaireId, surveyResults,
                   checkInSessionId, checkInMessages, checkInNextSteps,
                   ls_checkInSessionId>>
    /\ UNCHANGED <<tokenVars, httpVars, authVars, cbtVars>>
    /\ UNCHANGED hasRegisteredClearChatState

\* what closeSurvey sets (chat-context.tsx 630-638)
CloseSurveyBody ==
    /\ surveyMode' = FALSE
    /\ currentSurveyQuestion' = Null
    /\ currentQuestionIndex' = NoNumber
    /\ totalQuestions' = NoNumber
    /\ possibleAnswers' = <<>>
    /\ currentQuestionnaireId' = Null
    /\ surveyResults' = Null
    /\ UNCHANGED surveyQuestionnaireOptions

\* closeSurvey
CloseSurvey ==
    /\ ev' = [op |-> "closeSurvey"]
    /\ CloseSurveyBody
    /\ UNCHANGED <<tokenVars, httpVars, authVars, checkInVars, cbtVars>>
    /\ UNCHANGED hasRegisteredClearChatState

\* what clearChatState sets (chat-context.tsx 157-181); the loading flags and the
\* requests in flight are not touched
ClearChatStateBody ==
    /\ checkInSessionId' = Null
    /\ checkInMessages' = <<>>
    /\ checkInNextSteps' = <<>>
    /\ cbtSessionId' = Null
    /\ cbtMessages' = <<>>
    /\ cbtNextSteps' = <<>>
    /\ surveyMode' = FALSE
    /\ surveyQuestionnaireOptions' = <<>>
    /\ currentSurveyQuestion' = Null
    /\ currentQuestionIndex' = NoNumber
    /\ totalQuestions' = NoNumber
    /\ possibleAnswers' = <<>>
    /\ currentQuestionnaireId' = Null
    /\ surveyResults' = Null
    /\ ls_checkInSessionId' = Null
    /\ ls_cbtSessionId' = Null
    /\ UNCHANGED <<checkInLoading, cbtLoading, checkInRequests, cbtRequests>>

\* clearChatState called through the context value
ClearChatState ==
    /\ ev' = [op |-> "clearChatState"]
    /\ ClearChatStateBody
    /\ UNCHANGED <<tokenVars, httpVars, authVars>>
    /\ UNCHANGED hasRegisteredClearChatState

\* the chat container after ChatProvider mounted: the state of useState's initial
\* values (chat-context.tsx 102-121), the session-id keys removed by the
\* persistence effects run on mount (140-154)
ChatInitState ==
    /\ checkInSessionId = Null /\ checkInMessages = <<>> /\ checkInNextSteps = <<>>
    /\ checkInLoading = FALSE /\ checkInRequests = <<>> /\ ls_checkInSessionId = Null
    /\ cbtSessionId = Null /\ cbtMessages = <<>> /\ cbtNextSteps = <<>>
    /\ cbtLoading = FALSE /\ cbtRequests = <<>> /\ ls_cbtSessionId = Null
    /\ surveyMode = FALSE /\ surveyQuestionnaireOptions = <<>>
    /\ currentSurveyQuestion = Null /\ currentQuestionIndex = NoNumber
    /\ totalQuestions = NoNumber /\ possibleAnswers = <<>>
    /\ currentQuestionnaireId = Null /\ surveyResults = Null
    /\ hasRegisteredClearChatState = TRUE

\* ---- survey dialog of the check-in page ---------------------------------------

\* a value React renders nothing for: null or the empty string
Falsy(v) == v = Null \/ v = ""

\* the elements of a list
Elements(seq) == {seq[i] : i \in 1..Len(seq)}

\* the answer buttons are rendered, and enabled (auth-context.tsx 840-855)
AnswerButtonsShown == surveyResults = Null /\ ~Falsy(currentSurveyQuestion) /\ ~checkInLoading

\* the questionnaire buttons are rendered, and enabled (auth-context.tsx 868-876)
QuestionnaireButtonsShown ==
    surveyResults = Null /\ Falsy(currentSurveyQuestion) /\ ~checkInLoading

\* HandleAnswerQuestion with the answer buttons left in place beside the results
HandleAnswerQuestion_BesideResults(answer) ==
    /\ ~Falsy(currentSurveyQuestion) /\ ~checkInLoading
    /\ answer \in Elements(possibleAnswers)
    /\ AnswerSurveyQuestion([type |-> "number", num |-> answer.score, str |-> <<>>])

\* a click on the button of a possible answer: handleAnswerQuestion(answer.score)
\* (auth-context.tsx 639-642, 850-856)
HandleAnswerQuestion(answer) ==
    /\ AnswerButtonsShown
    /\ answer \in Elements(possibleAnswers)
    /\ AnswerSurveyQuestion([type |-> "number", num |-> answer.score, str |-> <<>>])

\* a click on the button of a questionnaire: handleSelectQuestionnaire(option.id)
\* (auth-context.tsx 634-637, 870-876)
HandleSelectQuestionnaire(questionnaireId) ==
    /\ QuestionnaireButtonsShown
    /\ questionnaireId \in Elements(surveyQuestionnaireOptions)
    /\ SelectQuestionnaire(questionnaireId)

\* ---- CBT flow ---------------------------------------------------------------

\* startNewCBT up to its await (chat-context.tsx 344-354), given that the user
\* test passed, awaited by a handler that continues as `op` and holds `message`
StartNewCBTBody(pending, op, message) ==
    /\ cbtSessionId' = Null
    /\ cbtMessages' = <<>>
    /\ cbtNextSteps' = <<>>
    /\ cbtRequests' = Append(pending, ChatRequest(op, message, Null, "cbt"))

\* startNewCBT called by a page or by any consumer of the context
StartNewCBT ==
    /\ user # Null => Len(cbtRequests) < MaxRequests
    /\ ev' = [op |-> "startNewCBT",
              accepted |-> user # Null, before |-> CbtFields]
    /\ IF user = Null
         THEN UNCHANGED cbtVars
         ELSE /\ StartNewCBTBody(cbtRequests, "startNew", NoMessage)
              /\ cbtLoading' = TRUE
              /\ ls_cbtSessionId' = Mirror(cbtSessionId, Null, ls_cbtSessionId)
    /\ UNCHANGED <<tokenVars, httpVars, authVars, checkInVars, surveyVars>>
    /\ UNCHANGED hasRegisteredClearChatState

\* resumeCBT up to its await (chat-context.tsx 381-388)
ResumeCBT ==
    /\ (user # Null /\ cbtSessionId # Null) => Len(cbtRequests) < MaxRequests
    /\ ev' = [op |-> "resumeCBT",
              accepted |-> user # Null /\ cbtSessionId # Null, before |-> CbtFields]
    /\ IF user = Null \/ cbtSessionId = Null
         THEN UNCHANGED cbtVars
         ELSE /\ cbtLoading' = TRUE
              /\ cbtRequests' = Append(cbtRequests,
                     ChatRequest("resume", NoMessage, cbtSessionId, "cbt"))
              /\ UNCHANGED <<cbtSessionId, cbtMessages, cbtNextSteps, ls_cbtSessionId>>
    /\ UNCHANGED <<tokenVars, httpVars, authVars, checkInVars, surveyVars>>
    /\ UNCHANGED hasRegisteredClearChatState

\* the test that lets sendCBTMessage through (chat-context.tsx 421)
SendCBTAccepted(message) ==
    ~(user = Null \/ Trim(message) = <<>> \/ cbtLoading)

\* sendCBTMessage up to its first await (chat-context.tsx 420-439, 459): with a
\* session id the message is sent; without one the user message is queued, then
\* startNewCBT is called and awaited, which empties the transcript in the same
\* batch of state updates
SendCBTMessage(message) ==
    /\ SendCBTAccepted(message) =>
          (Len(cbtRequests) < MaxRequests /\ Len(cbtMessages) < MaxMessages)
    /\ ev' = [op |-> "sendCBTMessage", message |-> message,
              accepted |-> SendCBTAccepted(message), before |-> CbtFields]
    /\ IF ~SendCBTAccepted(message)
         THEN UNCHANGED cbtVars
         ELSE IF cbtSessionId = Null
           THEN /\ StartNewCBTBody(cbtRequests, "startThenSend", ChatText(message))
                /\ cbtLoading' = TRUE
                /\ ls_cbtSessionId' = Mirror(cbtSessionId, Null, ls_cbtSessionId)
           ELSE /\ cbtMessages' = Append(cbtMessages, Message("user", message, "user"))
                /\ cbtLoading' = TRUE
                /\ cbtNextSteps' = <<>>
                /\ cbtRequests' = Append(cbtRequests,
                       ChatRequest("send", ChatText(message), cbtSessionId, "cbt"))
                /\ UNCHANGED <<cbtSessionId, ls_cbtSessionId>>
    /\ UNCHANGED <<tokenVars, httpVars, authVars, checkInVars, surveyVars>>
    /\ UNCHANGED hasRegisteredClearChatState

\* the test that lets handleCBTNextStep through (chat-context.tsx 493)
CBTNextStepAccepted == ~(user = Null \/ cbtLoading)

\* handleCBTNextStep up to its await (chat-context.tsx 492-499)
HandleCBTNextStep(step) ==
    /\ CBTNextStepAccepted => Len(cbtRequests) < MaxRequests
    /\ ev' = [op |-> "handleCBTNextStep", step |-> step,
              accepted |-> CBTNextStepAccepted, before |-> CbtFields]
    /\ IF ~CBTNextStepAccepted
         THEN UNCHANGED cbtVars
         ELSE /\ cbtLoading' = TRUE
              /\ cbtNextSteps' = <<>>
              /\ cbtRequests' = Append(cbtRequests,
                     ChatRequest("next", ChatText(step.action), cbtSessionId, "cbt"))
              /\ UNCHANGED <<cbtSessionId, cbtMessages, ls_cbtSessionId>>
    /\ UNCHANGED <<tokenVars, httpVars, authVars, checkInVars, surveyVars>>
    /\ UNCHANGED hasRegisteredClearChatState

\* the requests in flight once request i settled; sendCBTMessage, resumed after the
\* startNewCBT it awaited, sends its message with the session id of its own
\* render, which was null (chat-context.tsx 437-439)
CbtRequestsAfter(i) ==
    IF cbtRequests[i].op = "startThenSend"
      THEN Append(RemoveAt(cbtRequests, i),
                  ChatRequest("sendNoSession", cbtRequests[i].message, Null, "cbt"))
      ELSE RemoveAt(cbtRequests, i)

\* the rest of a CBT handler once its request resolved (chat-context.tsx 356-377,
\* 390-416, 441-456, 461-477, 501-521)
CbtResolved(i, resp) ==
    LET req == cbtRequests[i]
        starts == req.op \in {"startNew", "startThenSend"} IN
    /\ ~starts => Len(cbtMessages) < MaxMessages
    /\ ev' = [op |-> "cbtResolved", handler |-> req.op, message |-> req.message,
              resp |-> resp]
    /\ cbtRequests' = CbtRequestsAfter(i)
    /\ cbtMessages' =
          CASE starts -> <<Message("welcome", resp.response, "bot")>>
            [] req.op = "resume" -> Append(cbtMessages, Message("resume", resp.response, "bot"))
            [] OTHER -> Append(cbtMessages, Message("bot", resp.response, "bot"))
    /\ cbtSessionId' = IF starts \/ req.op = "send" THEN resp.session_id ELSE cbtSessionId
    /\ cbtNextSteps' = NextStepsAfter(cbtNextSteps, resp)
    /\ cbtLoading' = FALSE
    /\ ls_cbtSessionId' = Mirror(cbtSessionId, cbtSessionId', ls_cbtSessionId)
    /\ UNCHANGED <<tokenVars, httpVars, authVars, checkInVars, surveyVars>>
    /\ UNCHANGED hasRegisteredClearChatState

\* the catch and finally blocks of a CBT handler whose request was rejected
\* (chat-context.tsx 373-377, 408-416, 479-488, 517-521): startNewCBT swallows
\* the error, a failed resume calls startNewCBT without awaiting it, a send
\* rejected with status 500 awaits startNewCBT before its finally
CbtRejected(i, status) ==
    LET req == cbtRequests[i] IN
    /\ ev' = [op |-> "cbtRejected", handler |-> req.op, status |-> status]
    /\ CASE req.op = "resume" ->
              /\ StartNewCBTBody(RemoveAt(cbtRequests, i), "startNew", NoMessage)
              /\ ls_cbtSessionId' = Null
              /\ cbtLoading' = FALSE
         [] req.op \in {"send", "sendNoSession"} /\ status = HttpServerError ->
              /\ StartNewCBTBody(RemoveAt(cbtRequests, i), "startNew", NoMessage)
              /\ cbtLoading' = TRUE
              /\ ls_cbtSessionId' = Mirror(cbtSessionId, Null, ls_cbtSessionId)
         [] OTHER ->
              /\ cbtRequests' = CbtRequestsAfter(i)
              /\ cbtLoading' = FALSE
              /\ UNCHANGED <<cbtSessionId, cbtMessages, cbtNextSteps, ls_cbtSessionId>>
    /\ UNCHANGED <<tokenVars, httpVars, authVars, checkInVars, surveyVars>>
    /\ UNCHANGED hasRegisteredClearChatState

-----------------------------------------------------------------------------
(***************************************************************************)
(* Auth state container: AuthProvider (auth-context.tsx 273-469) over       *)
(* authAPI / userAPI (api.ts 101-139, 186-190). A request of the container  *)
(* either resolves or is rejected; what the response interceptor does in    *)
(* between is the HTTP client's part above.                                 *)
(***************************************************************************)
\* user records the backend can return from GET /users/me
Users == {"u1", "u2"}

\* a request through the api instance: the request interceptor attaches the
\* access token found in storage when the request is issued (api.ts 42-51)
AuthRequest(op, bearer) == [op |-> op, Authorization |-> bearer]

\* inactivityTimerRef.current ("none": null, "armed": a pending timer, "fired": the
\* id of a timer that has run) and the number of timers pending in the browser
NoTimer == [ref |-> "none", armed |-> 0]

\* if (inactivityTimerRef.current) { clearTimeout(...); inactivityTimerRef.current = null }
ClearTimer(t) ==
    [ref |-> "none", armed |-> IF t.ref = "armed" THEN t.armed - 1 ELSE t.armed]

\* inactivityTimerRef.current = setTimeout(...)
ArmTimer(t) == [ref |-> "armed", armed |-> t.armed + 1]

\* ResetTimer that arms a timer without clearing the one the ref holds
ResetTimer_NoClear(t, u) == IF u # Null THEN ArmTimer(t) ELSE ClearTimer(t)

\* resetInactivityTimer rendered with user u (auth-context.tsx 287-320)
ResetTimer(t, u) == IF u # Null THEN ArmTimer(ClearTimer(t)) ELSE ClearTimer(t)

\* the activity-listener effect when setUser(new) replaces old (auth-context.tsx
\* 323-352): cleanup of the effect of a present user, then setup for a present user
TimerAfterSetUser(t, old, new) ==
    IF old = Null /\ new = Null
      THEN t
      ELSE LET cleaned == IF old # Null THEN ClearTimer(t) ELSE t
           IN  IF new # Null THEN ResetTimer(cleaned, new) ELSE cleaned

\* the pages behind the redirect effect (auth-context.tsx 555-560, unnamed/part_001
\* 29-34, app/home/page.tsx 30-36, app/profile/page.tsx 72-77, app/quotes/page.tsx
\* 28-33)
ProtectedRoutes == {"/check-in", "/cbt", "/home", "/profile", "/quotes"}

\* RouteAfter that pushes the login route while the authentication check is loading
RouteAfter_NoLoadingTest(r, u, l) ==
    IF r \in ProtectedRoutes /\ u = Null THEN "/login" ELSE r

\* the redirect effect of a protected page rendered at route r with user u and
\* loading flag l: if (!isLoading && !isAuthenticated) router.push('/login')
\* (auth-context.tsx 555-560, isAuthenticated at 458)
RouteAfter(r, u, l) ==
    IF r \in ProtectedRoutes /\ ~l /\ u = Null THEN "/login" ELSE r

\* login up to its first await (auth-context.tsx 380-385, api.ts 107-117)
Login ==
    /\ Len(authRequests) < MaxAuthRequests
    /\ ev' = [op |-> "login"]
    /\ isLoading' = TRUE
    /\ authRequests' = Append(authRequests, AuthRequest("login.token", ls_access_token))
    /\ UNCHANGED <<tokenVars, httpVars, user, route, inactivityTimer, chatVars>>
    /\ UNCHANGED hasRegisteredClearChatState

\* LoginTokenResolved issuing GET /users/me before the tokens are stored
LoginTokenResolved_FetchBeforeStore(i, pair) ==
    /\ authRequests[i].op = "login.token"
    /\ ev' = [op |-> "loginTokenResolved", pair |-> pair]
    /\ ls_access_token' = pair.access_token
    /\ ls_refresh_token' = pair.refresh_token
    /\ authRequests' = Append(RemoveAt(authRequests, i),
                              AuthRequest("login.user", ls_access_token))
    /\ UNCHANGED <<httpVars, user, isLoading, route, inactivityTimer, chatVars>>
    /\ UNCHANGED hasRegisteredClearChatState

\* POST /auth/token resolved: authAPI.login stores the pair (api.ts 119-125),
\* login stores it again and asks for the current user (auth-context.tsx 386-394)
LoginTokenResolved(i, pair) ==
    /\ authRequests[i].op = "login.token"
    /\ ev' = [op |-> "loginTokenResolved", pair |-> pair]
    /\ ls_access_token' = pair.access_token
    /\ ls_refresh_token' = pair.refresh_token
    /\ authRequests' = Append(RemoveAt(authRequests, i),
                              AuthRequest("login.user", ls_access_token'))
    /\ UNCHANGED <<httpVars, user, isLoading, route, inactivityTimer, chatVars>>
    /\ UNCHANGED hasRegisteredClearChatState

\* POST /auth/token rejected: authAPI.login throws before storing anything, login
\* rethrows from its catch and resets the flag (auth-context.tsx 405-410)
LoginTokenRejected(i) ==
    /\ authRequests[i].op = "login.token"
    /\ ev' = [op |-> "loginRejected", at |-> "token", thrown |-> TRUE]
    /\ authRequests' = RemoveAt(authRequests, i)
    /\ isLoading' = FALSE
    /\ route' = RouteAfter(route, user, FALSE)
    /\ UNCHANGED <<tokenVars, httpVars, user, inactivityTimer, chatVars>>
    /\ UNCHANGED hasRegisteredClearChatState

\* what the load effect of ChatProvider makes of a session id (chat-context.tsx
\* 126-136): the saved id when there is one, else the id held
SavedOr(saved, held) == IF saved # Null THEN saved ELSE held

\* the effect of ChatProvider on [isAuthenticated] when setUser takes the user
\* from old to new (chat-context.tsx 124-137): it reads the stored session ids
\* when isAuthenticated has become true; the persistence effects follow (140-154)
LoadSavedSessionIds(old, new) ==
    IF old = Null /\ new # Null
    THEN /\ checkInSessionId' = SavedOr(ls_checkInSessionId, checkInSessionId)
         /\ cbtSessionId' = SavedOr(ls_cbtSessionId, cbtSessionId)
         /\ ls_checkInSessionId' = Mirror(checkInSessionId, checkInSessionId', ls_checkInSessionId)
         /\ ls_cbtSessionId' = Mirror(cbtSessionId, cbtSessionId', ls_cbtSessionId)
         /\ UNCHANGED <<checkInMessages, checkInNextSteps, checkInLoading, checkInRequests,
                        cbtMessages, cbtNextSteps, cbtLoading, cbtRequests, surveyVars>>
    ELSE UNCHANGED chatVars

\* GET /users/me resolved inside login (auth-context.tsx 394-397, 409)
LoginUserResolved(i, userData) ==
    /\ authRequests[i].op = "login.user"
    /\ ev' = [op |-> "loginUserResolved", userData |-> userData]
    /\ authRequests' = RemoveAt(authRequests, i)
    /\ user' = userData
    /\ inactivityTimer' = TimerAfterSetUser(inactivityTimer, user, userData)
    /\ LoadSavedSessionIds(user, userData)
    /\ route' = "/home"
    /\ isLoading' = FALSE
    /\ UNCHANGED <<tokenVars, httpVars>>
    /\ UNCHANGED hasRegisteredClearChatState

\* LoginUserRejected that leaves the tokens of the failed attempt in storage
LoginUserRejected_KeepTokens(i) ==
    /\ authRequests[i].op = "login.user"
    /\ ev' = [op |-> "loginRejected", at |-> "user", thrown |-> TRUE]
    /\ authRequests' = RemoveAt(authRequests, i)
    /\ isLoading' = FALSE
    /\ route' = RouteAfter(route, user, FALSE)
    /\ UNCHANGED <<tokenVars, httpVars, user, inactivityTimer, chatVars>>
    /\ UNCHANGED hasRegisteredClearChatState

\* GET /users/me rejected inside login: the tokens are removed and a new error is
\* thrown, rethrown by the outer catch (auth-context.tsx 398-410)
LoginUserRejected(i) ==
    /\ authRequests[i].op = "login.user"
    /\ ev' = [op |-> "loginRejected", at |-> "user", thrown |-> TRUE]
    /\ authRequests' = RemoveAt(authRequests, i)
    /\ ls_access_token' = Null
    /\ ls_refresh_token' = Null
    /\ isLoading' = FALSE
    /\ route' = RouteAfter(route, user, FALSE)
    /\ UNCHANGED <<httpVars, user, inactivityTimer, chatVars>>
    /\ UNCHANGED hasRegisteredClearChatState

\* the effects of the first commit, children first: ChatProvider's load effect
\* finds isAuthenticated false (chat-context.tsx 124-137), its persistence effects
\* write the ids held, null after construction, which removes both keys (140-154),
\* and clearChatState is registered (187-193); AuthProvider's activity effect
\* returns for want of a user (auth-context.tsx 323-324) and checkAuth runs up to
\* its await (355-377)
Mount ==
    /\ ~hasRegisteredClearChatState
    /\ ev' = [op |-> "mount"]
    /\ hasRegisteredClearChatState' = TRUE
    /\ ls_checkInSessionId' = checkInSessionId
    /\ ls_cbtSessionId' = cbtSessionId
    /\ IF ls_access_token = Null
       THEN /\ isLoading' = FALSE
            /\ UNCHANGED authRequests
       ELSE /\ authRequests' = Append(authRequests, AuthRequest("checkAuth", ls_access_token))
            /\ UNCHANGED isLoading
    /\ route' = RouteAfter(route, user, isLoading')
    /\ UNCHANGED <<tokenVars, httpVars, user, inactivityTimer, surveyVars,
                   checkInSessionId, checkInMessages, checkInNextSteps, checkInLoading,
                   checkInRequests, cbtSessionId, cbtMessages, cbtNextSteps, cbtLoading,
                   cbtRequests>>

\* GET /users/me of checkAuth resolved (auth-context.tsx 365-366, 372)
CheckAuthResolved(i, userData) ==
    /\ authRequests[i].op = "checkAuth"
    /\ ev' = [op |-> "checkAuthResolved", userData |-> userData]
    /\ authRequests' = RemoveAt(authRequests, i)
    /\ user' = userData
    /\ inactivityTimer' = TimerAfterSetUser(inactivityTimer, user, userData)
    /\ LoadSavedSessionIds(user, userData)
    /\ isLoading' = FALSE
    /\ UNCHANGED <<tokenVars, httpVars, route>>
    /\ UNCHANGED hasRegisteredClearChatState

\* CheckAuthRejected that removes the access token and leaves the refresh token
CheckAuthRejected_AccessOnly(i) ==
    /\ authRequests[i].op = "checkAuth"
    /\ ev' = [op |-> "checkAuthRejected"]
    /\ authRequests' = RemoveAt(authRequests, i)
    /\ ls_access_token' = Null
    /\ isLoading' = FALSE
    /\ route' = RouteAfter(route, user, FALSE)
    /\ UNCHANGED <<ls_refresh_token, httpVars, user, inactivityTimer, chatVars>>
    /\ UNCHANGED hasRegisteredClearChatState

\* GET /users/me of checkAuth rejected (auth-context.tsx 367-372)
CheckAuthRejected(i) ==
    /\ authRequests[i].op = "checkAuth"
    /\ ev' = [op |-> "checkAuthRejected"]
    /\ authRequests' = RemoveAt(authRequests, i)
    /\ ls_access_token' = Null
    /\ ls_refresh_token' = Null
    /\ isLoading' = FALSE
    /\ route' = RouteAfter(route, user, FALSE)
    /\ UNCHANGED <<httpVars, user, inactivityTimer, chatVars>>
    /\ UNCHANGED hasRegisteredClearChatState

\* Logout that sends POST /auth/logout without calling the chat-clear callback
Logout_NoClear ==
    /\ Len(authRequests) < MaxAuthRequests
    /\ ev' = [op |-> "logout"]
    /\ isLoading' = TRUE
    /\ authRequests' = Append(authRequests, AuthRequest("logout", ls_access_token))
    /\ UNCHANGED <<tokenVars, httpVars, user, route, inactivityTimer, chatVars>>
    /\ UNCHANGED hasRegisteredClearChatState

\* logout up to its await: the chat-clear callback registered by ChatProvider is
\* called, then POST /auth/logout is sent (auth-context.tsx 414-423, api.ts 128-132)
Logout ==
    /\ Len(authRequests) < MaxAuthRequests
    /\ ev' = [op |-> "logout"]
    /\ isLoading' = TRUE
    /\ ClearChatStateBody
    /\ authRequests' = Append(authRequests, AuthRequest("logout", ls_access_token))
    /\ UNCHANGED <<tokenVars, httpVars, user, route, inactivityTimer>>
    /\ UNCHANGED hasRegisteredClearChatState

\* LogoutSettled that clears the user and the tokens only when the backend agreed
\* and rejects otherwise
LogoutSettled_OnlyOnSuccess(i, ok) ==
    /\ authRequests[i].op = "logout"
    /\ ev' = [op |-> "logoutSettled", ok |-> ok, thrown |-> ~ok]
    /\ authRequests' = RemoveAt(authRequests, i)
    /\ user' = IF ok THEN Null ELSE user
    /\ inactivityTimer' = IF ok THEN ClearTimer(inactivityTimer) ELSE inactivityTimer
    /\ ls_access_token' = IF ok THEN Null ELSE ls_access_token
    /\ ls_refresh_token' = IF ok THEN Null ELSE ls_refresh_token
    /\ isLoading' = FALSE
    /\ route' = RouteAfter(route, user', FALSE)
    /\ UNCHANGED <<httpVars, chatVars>>
    /\ UNCHANGED hasRegisteredClearChatState

\* POST /auth/logout settled either way: authAPI.logout removes the tokens in its
\* finally (api.ts 133-137), logout swallows the error and clears the user and the
\* tokens (auth-context.tsx 424-438)
LogoutSettled(i, ok) ==
    /\ authRequests[i].op = "logout"
    /\ ev' = [op |-> "logoutSettled", ok |-> ok, thrown |-> FALSE]
    /\ authRequests' = RemoveAt(authRequests, i)
    /\ user' = Null
    /\ inactivityTimer' = TimerAfterSetUser(ClearTimer(inactivityTimer), user, Null)
    /\ ls_access_token' = Null
    /\ ls_refresh_token' = Null
    /\ isLoading' = FALSE
    /\ route' = RouteAfter(route, Null, FALSE)
    /\ UNCHANGED <<httpVars, chatVars>>
    /\ UNCHANGED hasRegisteredClearChatState

\* a Link of the navigation bar or a button of a page takes the browser to route r
\* (navigation.tsx 124-170, app/home/page.tsx 164, 205); the page mounted there
\* runs its redirect effect
Navigate(r) ==
    /\ ev' = [op |-> "navigate", to |-> r]
    /\ route' = RouteAfter(r, user, isLoading)
    /\ UNCHANGED <<tokenVars, httpVars, user, isLoading, authRequests, inactivityTimer,
                   chatVars>>
    /\ UNCHANGED hasRegisteredClearChatState

\* resetInactivityTimer called through the context value
ResetInactivityTimer ==
    /\ ev' = [op |-> "resetInactivityTimer"]
    /\ inactivityTimer' = ResetTimer(inactivityTimer, user)
    /\ UNCHANGED <<tokenVars, httpVars, user, isLoading, route, authRequests, chatVars>>
    /\ UNCHANGED hasRegisteredClearChatState

\* mousedown, keypress, scroll or touchstart while the listeners of the activity
\* effect are attached, which is while a user is present (auth-context.tsx 323-338)
ActivityEvents == {"mousedown", "keypress", "scroll", "touchstart"}
ActivityEvent(e) ==
    /\ user # Null
    /\ ev' = [op |-> "activity", event |-> e]
    /\ inactivityTimer' = ResetTimer(inactivityTimer, user)
    /\ UNCHANGED <<tokenVars, httpVars, user, isLoading, route, authRequests, chatVars>>
    /\ UNCHANGED hasRegisteredClearChatState

\* the armed timer runs out: its callback clears the chat state through the
\* registered callback and calls authAPI.logout (auth-context.tsx 297-308)
TimerExpires ==
    /\ inactivityTimer.ref = "armed"
    /\ Len(authRequests) < MaxAuthRequests
    /\ ev' = [op |-> "timerExpires"]
    /\ inactivityTimer' = [ref |-> "fired", armed |-> inactivityTimer.armed - 1]
    /\ ClearChatStateBody
    /\ authRequests' = Append(authRequests, AuthRequest("expiry.logout", ls_access_token))
    /\ UNCHANGED <<tokenVars, httpVars, user, isLoading, route>>
    /\ UNCHANGED hasRegisteredClearChatState

\* ExpirySettled that keeps the user and the tokens when the backend call failed
ExpirySettled_KeepOnFailure(i, ok) ==
    /\ authRequests[i].op = "expiry.logout"
    /\ ev' = [op |-> "expirySettled", ok |-> ok]
    /\ authRequests' = RemoveAt(authRequests, i)
    /\ user' = IF ok THEN Null ELSE user
    /\ inactivityTimer' = IF ok THEN TimerAfterSetUser(inactivityTimer, user, Null)
                                ELSE inactivityTimer
    /\ ls_access_token' = IF ok THEN Null ELSE ls_access_token
    /\ ls_refresh_token' = IF ok THEN Null ELSE ls_refresh_token
    /\ route' = "/login"
    /\ UNCHANGED <<httpVars, isLoading, chatVars>>
    /\ UNCHANGED hasRegisteredClearChatState

\* POST /auth/logout of the timer's callback settled either way: tokens removed
\* (api.ts 133-137), user and tokens cleared, then router.push('/login')
\* (auth-context.tsx 309-317)
ExpirySettled(i, ok) ==
    /\ authRequests[i].op = "expiry.logout"
    /\ ev' = [op |-> "expirySettled", ok |-> ok]
    /\ authRequests' = RemoveAt(authRequests, i)
    /\ user' = Null
    /\ inactivityTimer' = TimerAfterSetUser(inactivityTimer, user, Null)
    /\ ls_access_token' = Null
    /\ ls_refresh_token' = Null
    /\ route' = "/login"
    /\ UNCHANGED <<httpVars, isLoading, chatVars>>
    /\ UNCHANGED hasRegisteredClearChatState

-----------------------------------------------------------------------------
(***************************************************************************)
(* Specifications                                                          *)
(***************************************************************************)
NoTokens == [access_token |-> Null, refresh_token |-> Null]
FirstTokens == [access_token |-> "a1", refresh_token |-> "r1"]

\* localStorage holds the tokens of pair p
TokensAre(p) ==
    /\ ls_access_token = p.access_token
    /\ ls_refresh_token = p.refresh_token

\* no intercepted call has been issued
HttpInitState ==
    /\ location = "app"
    /\ httpCalls = [c \in 1..MaxCalls |-> IdleCall]

\* the auth container at rest with user u
AuthAtRest(u) ==
    /\ user = u
    /\ isLoading = FALSE
    /\ route = "none"
    /\ authRequests = <<>>
    /\ inactivityTimer = ResetTimer(NoTimer, u)

\* The HTTP client alone: calls issued through the api instance and the backend's
\* answers, starting with or without a stored token pair.
HttpInit ==
    /\ \E p \in TokenPairs \cup {NoTokens} : TokensAre(p)
    /\ HttpInitState
    /\ AuthAtRest(Null)
    /\ ChatInitState
    /\ ev = [op |-> "init"]

HttpNext ==
    \/ \E c \in 1..MaxCalls : HttpRequest(c)
    \/ \E c \in 1..MaxCalls, st \in Statuses, p \in TokenPairs : HttpAnswer(c, st, p)

SpecHttp == HttpInit /\ [][HttpNext]_vars

\* The check-in flow and its survey sub-flow: every action of the container may be
\* called at any time, before login (no user) or after it.
CheckInInit ==
    /\ \/ TokensAre(NoTokens) /\ AuthAtRest(Null)
       \/ TokensAre(FirstTokens) /\ AuthAtRest(UserId)
    /\ HttpInitState
    /\ ChatInitState
    /\ ev = [op |-> "init"]

CheckInNext ==
    \/ StartNewCheckIn
    \/ ResumeCheckIn
    \/ \E m \in MessageInputs : SendCheckInMessage(m)
    \/ \E step \in NextStepInputs : HandleCheckInNextStep(step)
    \/ \E i \in 1..Len(checkInRequests), resp \in ChatResponses : CheckInResolved(i, resp)
    \/ \E i \in 1..Len(checkInRequests), st \in ChatErrors : CheckInRejected(i, st)
    \/ ClearChatState

SpecCheckIn == CheckInInit /\ [][CheckInNext]_vars

\* The CBT flow, likewise.
CbtNext ==
    \/ StartNewCBT
    \/ ResumeCBT
    \/ \E m \in MessageInputs : SendCBTMessage(m)
    \/ \E step \in NextStepInputs : HandleCBTNextStep(step)
    \/ \E i \in 1..Len(cbtRequests), resp \in ChatResponses : CbtResolved(i, resp)
    \/ \E i \in 1..Len(cbtRequests), st \in ChatErrors : CbtRejected(i, st)
    \/ ClearChatState

SpecCBT == CheckInInit /\ [][CbtNext]_vars

\* The auth container: AuthProvider has mounted and checkAuth has run up to its
\* await (auth-context.tsx 355-377): without a stored token the loading flag is
\* reset at once, with one GET /users/me is in flight.
AuthInit ==
    /\ \/ /\ TokensAre(NoTokens)
          /\ isLoading = FALSE
          /\ authRequests = <<>>
       \/ /\ \E p \in TokenPairs : TokensAre(p)
          /\ isLoading = TRUE
          /\ authRequests = <<AuthRequest("checkAuth", ls_access_token)>>
    /\ user = Null
    /\ inactivityTimer = NoTimer
    /\ route = "none"
    /\ HttpInitState
    /\ ChatInitState
    /\ ev = [op |-> "init"]

AuthNext ==
    \/ Login
    \/ \E i \in 1..Len(authRequests), p \in TokenPairs : LoginTokenResolved(i, p)
    \/ \E i \in 1..Len(authRequests) : LoginTokenRejected(i)
    \/ \E i \in 1..Len(authRequests), u \in Users : LoginUserResolved(i, u)
    \/ \E i \in 1..Len(authRequests) : LoginUserRejected(i)
    \/ \E i \in 1..Len(authRequests), u \in Users : CheckAuthResolved(i, u)
    \/ \E i \in 1..Len(authRequests) : CheckAuthRejected(i)
    \/ Logout
    \/ \E i \in 1..Len(authRequests), ok \in BOOLEAN : LogoutSettled(i, ok)
    \/ ResetInactivityTimer
    \/ \E e \in ActivityEvents : ActivityEvent(e)
    \/ TimerExpires
    \/ \E i \in 1..Len(authRequests), ok \in BOOLEAN : ExpirySettled(i, ok)

SpecAuth == AuthInit /\ [][AuthNext]_vars

\* Message sending in both flows side by side: the two send actions and the
\* settling of the requests they issue, the backend answering with one reply text
\* and one session id.
MessagingResponses == {r \in ChatResponses : r.response = <<"a">> /\ r.session_id = "s1"}

MessagingNext ==
    \/ \E m \in MessageInputs : SendCheckInMessage(m)
    \/ \E i \in 1..Len(checkInRequests), resp \in MessagingResponses : CheckInResolved(i, resp)
    \/ \E i \in 1..Len(checkInRequests), st \in ChatErrors : CheckInRejected(i, st)
    \/ \E m \in MessageInputs : SendCBTMessage(m)
    \/ \E i \in 1..Len(cbtRequests), resp \in MessagingResponses : CbtResolved(i, resp)
    \/ \E i \in 1..Len(cbtRequests), st \in ChatErrors : CbtRejected(i, st)

SpecMessaging == CheckInInit /\ [][MessagingNext]_vars

\* A session from login to logout: a logged-in user starts chats in both flows,
\* logs out or lets the inactivity timer run out, and may log in again, while the
\* backend answers late or early.
SessionInit ==
    /\ TokensAre(FirstTokens)
    /\ AuthAtRest(UserId)
    /\ HttpInitState
    /\ ChatInitState
    /\ ev = [op |-> "init"]

SessionNext ==
    \/ StartNewCheckIn
    \/ \E i \in 1..Len(checkInRequests), resp \in MessagingResponses : CheckInResolved(i, resp)
    \/ StartNewCBT
    \/ \E i \in 1..Len(cbtRequests), resp \in MessagingResponses : CbtResolved(i, resp)
    \/ Logout
    \/ \E i \in 1..Len(authRequests), ok \in BOOLEAN : LogoutSettled(i, ok)
    \/ TimerExpires
    \/ \E i \in 1..Len(authRequests), ok \in BOOLEAN : ExpirySettled(i, ok)
    \/ Login
    \/ \E i \in 1..Len(authRequests), p \in TokenPairs : LoginTokenResolved(i, p)
    \/ \E i \in 1..Len(authRequests), u \in Users : LoginUserResolved(i, u)

SpecSession == SessionInit /\ [][SessionNext]_vars

\* A page load: the providers are constructed (useState initial values) over a
\* browser storage that holds whatever the previous page left, here both session
\* ids and possibly a token pair; the effects of the mount run, the auth check
\* settles, and the user goes on to use, leave and re-enter the application.
StoredCheckInId == "s1"
StoredCbtId == "s2"

ReloadInit ==
    /\ \E p \in {FirstTokens, NoTokens} : TokensAre(p)
    /\ user = Null /\ isLoading = TRUE /\ route = "none" /\ authRequests = <<>>
    /\ inactivityTimer = NoTimer
    /\ HttpInitState
    /\ checkInSessionId = Null /\ checkInMessages = <<>> /\ checkInNextSteps = <<>>
    /\ checkInLoading = FALSE /\ checkInRequests = <<>>
    /\ cbtSessionId = Null /\ cbtMessages = <<>> /\ cbtNextSteps = <<>>
    /\ cbtLoading = FALSE /\ cbtRequests = <<>>
    /\ surveyMode = FALSE /\ surveyQuestionnaireOptions = <<>>
    /\ currentSurveyQuestion = Null /\ currentQuestionIndex = NoNumber
    /\ totalQuestions = NoNumber /\ possibleAnswers = <<>>
    /\ currentQuestionnaireId = Null /\ surveyResults = Null
    /\ ls_checkInSessionId = StoredCheckInId
    /\ ls_cbtSessionId = StoredCbtId
    /\ hasRegisteredClearChatState = FALSE
    /\ ev = [op |-> "init"]

ReloadNext ==
    \/ Mount
    \/ /\ hasRegisteredClearChatState
       /\ \/ \E i \in 1..Len(authRequests), u \in Users : CheckAuthResolved(i, u)
          \/ \E i \in 1..Len(authRequests) : CheckAuthRejected(i)
          \/ StartNewCheckIn
          \/ \E i \in 1..Len(checkInRequests), resp \in MessagingResponses : CheckInResolved(i, resp)
          \/ StartNewCBT
          \/ \E i \in 1..Len(cbtRequests), resp \in MessagingResponses : CbtResolved(i, resp)
          \/ Logout
          \/ \E i \in 1..Len(authRequests), ok \in BOOLEAN : LogoutSettled(i, ok)
          \/ Login
          \/ \E i \in 1..Len(authRequests), p \in TokenPairs : LoginTokenResolved(i, p)
          \/ \E i \in 1..Len(authRequests), u \in Users : LoginUserResolved(i, u)

SpecReload == ReloadInit /\ [][ReloadNext]_vars

\* The survey dialog of the check-in page: the survey is started, questionnaires
\* and answers are chosen with the buttons the dialog renders, and the dialog is
\* closed; the backend answers with a question (possibly none), and with or
\* without a question index, possible answers and a result.
DialogResponses ==
    { r \in [response : Questions \cup {""},
             questionnaire_options : {Present(QuestionnaireOptions)},
             question_index : Optional(QuestionIndexes),
             total_questions : {Present(2)},
             possible_answers : {Present(AnswerOptions)},
             survey_results : Optional(SurveyResultValues)] :
        r.response \in {"", "q1"} }

DialogNext ==
    \/ StartSurvey
    \/ \E q \in QuestionnaireIds : HandleSelectQuestionnaire(q)
    \/ \E a \in Elements(AnswerOptions) : HandleAnswerQuestion(a)
    \/ \E i \in 1..Len(checkInRequests), resp \in DialogResponses : SurveyResolved(i, resp)
    \/ \E i \in 1..Len(checkInRequests), st \in ChatErrors : SurveyRejected(i, st)
    \/ CloseSurvey

SpecDialog == CheckInInit /\ [][DialogNext]_vars

\* ---- the stored tokens under the auth container and the HTTP client ------------

\* the operations of AuthProvider interleaved with a call through the api
\* instance and the answers of the backend to it
TokensNext ==
    \/ Login
    \/ \E i \in 1..Len(authRequests), p \in TokenPairs : LoginTokenResolved(i, p)
    \/ \E i \in 1..Len(authRequests) : LoginTokenRejected(i)
    \/ \E i \in 1..Len(authRequests), u \in Users : LoginUserResolved(i, u)
    \/ \E i \in 1..Len(authRequests) : LoginUserRejected(i)
    \/ \E i \in 1..Len(authRequests), u \in Users : CheckAuthResolved(i, u)
    \/ \E i \in 1..Len(authRequests) : CheckAuthRejected(i)
    \/ Logout
    \/ \E i \in 1..Len(authRequests), ok \in BOOLEAN : LogoutSettled(i, ok)
    \/ TimerExpires
    \/ \E i \in 1..Len(authRequests), ok \in BOOLEAN : ExpirySettled(i, ok)
    \/ HttpRequest(1)
    \/ \E st \in Statuses, p \in TokenPairs : HttpAnswer(1, st, p)

SpecTokens == AuthInit /\ [][TokensNext]_vars

\* ---- the initialise-or-resume effect of the chat pages -------------------------

\* the test of the effect of CheckInPage (auth-context.tsx 562-573) on the state it
\* was rendered with: a user, the flow not loading, and a session id without
\* messages or no session id
CheckInPageInitDue ==
    /\ route = "/check-in"
    /\ user # Null
    /\ ~checkInLoading
    /\ \/ checkInSessionId # Null /\ Len(checkInMessages) = 0
       \/ checkInSessionId = Null

\* the effect of CheckInPage acting (auth-context.tsx 564-571)
CheckInPageInit ==
    /\ CheckInPageInitDue
    /\ IF checkInSessionId # Null /\ Len(checkInMessages) = 0
         THEN ResumeCheckIn
         ELSE StartNewCheckIn

\* the test of the effect of CBTPage (unnamed/part_001 36-47)
CBTPageInitDue ==
    /\ route = "/cbt"
    /\ user # Null
    /\ ~cbtLoading
    /\ \/ cbtSessionId # Null /\ Len(cbtMessages) = 0
       \/ cbtSessionId = Null

\* the effect of CBTPage acting (unnamed/part_001 38-45)
CBTPageInit ==
    /\ CBTPageInitDue
    /\ IF cbtSessionId # Null /\ Len(cbtMessages) = 0
         THEN ResumeCBT
         ELSE StartNewCBT

\* a chat page rendered for an authenticated user, before its effects have run
ChatPageInit ==
    /\ TokensAre(FirstTokens)
    /\ user = UserId /\ isLoading = FALSE /\ authRequests = <<>>
    /\ inactivityTimer = ArmTimer(NoTimer)
    /\ route \in {"/check-in", "/cbt"}
    /\ HttpInitState
    /\ ChatInitState
    /\ ev = [op |-> "init"]

\* an effect that is due runs after the commit, before any other event is
\* handled; otherwise the user clicks New Chat (auth-context.tsx 606-609,
\* unnamed/part_001 80-83), sends a message (583-589, 57-63) or clicks a suggested
\* step (601-604, 75-78), or the backend settles a request
ChatPageNext ==
    \/ CheckInPageInit
    \/ CBTPageInit
    \/ /\ ~CheckInPageInitDue /\ ~CBTPageInitDue
       /\ \/ route = "/check-in" /\ StartNewCheckIn
          \/ route = "/cbt" /\ StartNewCBT
          \/ \E m \in MessageInputs :
                /\ route = "/check-in" /\ Trim(m) # <<>> /\ ~checkInLoading
                /\ SendCheckInMessage(m)
          \/ \E m \in MessageInputs :
                /\ route = "/cbt" /\ Trim(m) # <<>> /\ ~cbtLoading
                /\ SendCBTMessage(m)
          \/ \E step \in Elements(checkInNextSteps) :
                route = "/check-in" /\ HandleCheckInNextStep(step)
          \/ \E step \in Elements(cbtNextSteps) :
                route = "/cbt" /\ HandleCBTNextStep(step)
          \/ \E i \in 1..Len(checkInRequests), resp \in ChatResponses : CheckInResolved(i, resp)
          \/ \E i \in 1..Len(checkInRequests), st \in ChatErrors : CheckInRejected(i, st)
          \/ \E i \in 1..Len(cbtRequests), resp \in ChatResponses : CbtResolved(i, resp)
          \/ \E i \in 1..Len(cbtRequests), st \in ChatErrors : CbtRejected(i, st)

SpecChatPage == ChatPageInit /\ [][ChatPageNext]_vars

\* ---- both chat flows side by side ---------------------------------------------

\* one answer of the backend per kind of request
FlowsResponses ==
    {r \in ChatResponses : r.response = <<"a">> /\ r.session_id = "s1"}
FlowsSurveyResponses ==
    {r \in DialogResponses : /\ r.response = "q1"
                              /\ r.question_index = Present(1)}

\* the user is on the check-in page and has the CBT flow of the shared container
\* at hand as well
FlowsInit == ChatPageInit /\ route = "/check-in"

\* the actions of either flow called while that flow is not loading, as the
\* controls of the pages do, and the backend settling their requests
FlowsNext ==
    \/ ~checkInLoading /\ StartNewCheckIn
    \/ /\ ~checkInLoading /\ Len(checkInMessages) < MaxFlowMessages
       /\ SendCheckInMessage(<<"h">>)
    \/ \E step \in Elements(checkInNextSteps) :
          ~checkInLoading /\ HandleCheckInNextStep(step)
    \/ \E i \in 1..Len(checkInRequests), resp \in FlowsResponses : CheckInResolved(i, resp)
    \/ \E i \in 1..Len(checkInRequests) : CheckInRejected(i, HttpServerError)
    \/ ~checkInLoading /\ StartSurvey
    \/ \E q \in {"phq9"} : HandleSelectQuestionnaire(q)
    \/ \E a \in Elements(AnswerOptions) : HandleAnswerQuestion(a)
    \/ \E i \in 1..Len(checkInRequests), resp \in FlowsSurveyResponses : SurveyResolved(i, resp)
    \/ \E i \in 1..Len(checkInRequests) : SurveyRejected(i, HttpServerError)
    \/ CloseSurvey
    \/ ~cbtLoading /\ StartNewCBT
    \/ /\ ~cbtLoading /\ Len(cbtMessages) < MaxFlowMessages
       /\ SendCBTMessage(<<"h">>)
    \/ \E step \in Elements(cbtNextSteps) : ~cbtLoading /\ HandleCBTNextStep(step)
    \/ \E i \in 1..Len(cbtRequests), resp \in FlowsResponses : CbtResolved(i, resp)
    \/ \E i \in 1..Len(cbtRequests) : CbtRejected(i, HttpServerError)
    \/ ClearChatState

SpecFlows == FlowsInit /\ [][FlowsNext]_vars

\* ---- the protected pages under the providers of the root layout --------------

Routes == ProtectedRoutes \cup {"/login"}

\* a page load at any route, before the effects of the first commit (layout.tsx
\* 24-32, auth-context.tsx 274-275)
PagesInit ==
    /\ \E p \in {FirstTokens, NoTokens} : TokensAre(p)
    /\ user = Null /\ isLoading = TRUE /\ authRequests = <<>>
    /\ route \in Routes
    /\ inactivityTimer = NoTimer
    /\ HttpInitState
    /\ checkInSessionId = Null /\ checkInMessages = <<>> /\ checkInNextSteps = <<>>
    /\ checkInLoading = FALSE /\ checkInRequests = <<>>
    /\ cbtSessionId = Null /\ cbtMessages = <<>> /\ cbtNextSteps = <<>>
    /\ cbtLoading = FALSE /\ cbtRequests = <<>>
    /\ surveyMode = FALSE /\ surveyQuestionnaireOptions = <<>>
    /\ currentSurveyQuestion = Null /\ currentQuestionIndex = NoNumber
    /\ totalQuestions = NoNumber /\ possibleAnswers = <<>>
    /\ currentQuestionnaireId = Null /\ surveyResults = Null
    /\ ls_checkInSessionId = Null
    /\ ls_cbtSessionId = Null
    /\ hasRegisteredClearChatState = FALSE
    /\ ev = [op |-> "init"]

\* the login form lives on the login page, the logout entry is shown to an
\* authenticated user (navigation.tsx 140-160)
PagesNext ==
    \/ Mount
    \/ /\ hasRegisteredClearChatState
       /\ \/ \E r \in Routes : Navigate(r)
          \/ route = "/login" /\ Login
          \/ \E i \in 1..Len(authRequests), p \in TokenPairs : LoginTokenResolved(i, p)
          \/ \E i \in 1..Len(authRequests) : LoginTokenRejected(i)
          \/ \E i \in 1..Len(authRequests), u \in Users : LoginUserResolved(i, u)
          \/ \E i \in 1..Len(authRequests) : LoginUserRejected(i)
          \/ \E i \in 1..Len(authRequests), u \in Users : CheckAuthResolved(i, u)
          \/ \E i \in 1..Len(authRequests) : CheckAuthRejected(i)
          \/ user # Null /\ Logout
          \/ \E i \in 1..Len(authRequests), ok \in BOOLEAN : LogoutSettled(i, ok)
          \/ TimerExpires
          \/ \E i \in 1..Len(authRequests), ok \in BOOLEAN : ExpirySettled(i, ok)

SpecPages == PagesInit /\ [][PagesNext]_vars

\* The survey sub-flow of the check-in page, with clearChatState beside it.
SurveyNext ==
    \/ StartSurvey
    \/ \E q \in QuestionnaireIds : SelectQuestionnaire(q)
    \/ \E a \in ScoreInputs : AnswerSurveyQuestion(a)
    \/ \E i \in 1..Len(checkInRequests), resp \in SurveyResponses : SurveyResolved(i, resp)
    \/ \E i \in 1..Len(checkInRequests), st \in ChatErrors : SurveyRejected(i, st)
    \/ CloseSurvey
    \/ ClearChatState

SpecSurvey == CheckInInit /\ [][SurveyNext]_vars

-----------------------------------------------------------------------------
(***************************************************************************)
(* Properties of the HTTP client wrapper (checked under SpecHttp)          *)
(***************************************************************************)
Calls == 1..MaxCalls
Finished(c) == httpCalls[c].outcome \in {"ok", "error"}
\* this step is the backend answering call c with status s
Answered(c, s) ==
    /\ httpCalls[c].outcome = "pending"
    /\ ev'.op = "answer" /\ ev'.call = c /\ ev'.status = s

\* C3: a request answered 401 leads to one token refresh exchange and to one
\* replay of the request, never to more of either (no loop).
C3_Original ==
    \A c \in Calls :
        /\ httpCalls[c].refreshes <= 1
        /\ httpCalls[c].replays <= 1
        /\ httpCalls[c].replays = 1 => httpCalls[c].refreshes = 1

\* C4: when a request is answered 401 with no refresh token in storage, or the
\* refresh exchange is answered with an error, then afterwards neither token is in
\* storage and the redirect to the login page has been performed.
C4_Original ==
    [][\A c \in Calls :
          ( \/ (Answered(c, HttpUnauthorized) /\ ~Top(c).retry /\ ls_refresh_token = Null)
            \/ \E s \in Statuses \ {HttpOk} :
                  Answered(c, s) /\ Top(c).kind = "refresh" ) =>
              /\ ls_access_token' = Null
              /\ ls_refresh_token' = Null
              /\ location' = "/login"]_vars

\* C5: a call that met a 401 ends with the successful response of the retried
\* request or with a hard redirect performed; none ends with an error delivered
\* to the caller without a redirect.
C5_Original ==
    \A c \in Calls :
        (Finished(c) /\ httpCalls[c].got401) =>
            \/ httpCalls[c].outcome = "ok" /\ httpCalls[c].replays = 1
            \/ httpCalls[c].redirected

-----------------------------------------------------------------------------
(***************************************************************************)
(* Properties of the chat container                                        *)
(***************************************************************************)
\* the actions of the check-in flow and of its survey sub-flow that call the backend
CheckInFlowActions ==
    {"startNewCheckIn", "resumeCheckIn", "sendCheckInMessage", "handleCheckInNextStep",
     "startSurvey", "selectQuestionnaire", "answerSurveyQuestion"}
CBTFlowActions ==
    {"startNewCBT", "resumeCBT", "sendCBTMessage", "handleCBTNextStep"}

\* C1: each chat flow has at most one backend request outstanding at any time, and
\* an action of a flow invoked while the flow's loading flag is true issues no
\* request. (SpecCheckIn)
C1_Original ==
    [][ /\ Len(checkInRequests') <= 1
        /\ Len(cbtRequests') <= 1
        /\ (ev'.op \in CheckInFlowActions /\ checkInLoading)
              => checkInRequests' = checkInRequests
        /\ (ev'.op \in CBTFlowActions /\ cbtLoading)
              => cbtRequests' = cbtRequests ]_vars

\* C2: a sendCheckInMessage call made while checkInLoading is true issues no
\* backend request and appends no message. (SpecCheckIn)
C2_SendWhileLoadingIgnored ==
    [][ (ev'.op = "sendCheckInMessage" /\ checkInLoading)
           => /\ checkInRequests' = checkInRequests
              /\ checkInMessages' = checkInMessages ]_vars

\* a non-blank message was sent by a user while a start-new or another handler's
\* request was in flight, and no send request was added for it
C2_Witness ==
    /\ ev.op = "sendCheckInMessage"
    /\ user # Null
    /\ Trim(ev.message) # <<>>
    /\ checkInLoading
    /\ checkInRequests # <<>>
    /\ \A i \in 1..Len(checkInRequests) : checkInRequests[i].op # "send"

\* C6: while a startNewCBT call waits for its greeting, cbtMessages and
\* cbtNextSteps are empty and cbtSessionId is null; the greeting makes the
\* transcript exactly the welcome message. (SpecCBT)
C6_Original ==
    [][ /\ (\E i \in 1..Len(cbtRequests') :
                cbtRequests'[i].op \in {"startNew", "startThenSend"})
              => /\ cbtMessages' = <<>>
                 /\ cbtNextSteps' = <<>>
                 /\ cbtSessionId' = Null
        /\ (ev'.op = "cbtResolved" /\ ev'.handler \in {"startNew", "startThenSend"})
              => /\ Len(cbtMessages') = 1
                 /\ cbtMessages'[1].id = "welcome" ]_vars

\* C7: after closeSurvey every survey field has its initial value, the
\* questionnaire options list included. (SpecSurvey)
C7_Original ==
    [][ ev'.op = "closeSurvey"
           => /\ surveyMode' = FALSE
              /\ surveyQuestionnaireOptions' = <<>>
              /\ currentSurveyQuestion' = Null
              /\ currentQuestionIndex' = NoNumber
              /\ totalQuestions' = NoNumber
              /\ possibleAnswers' = <<>>
              /\ currentQuestionnaireId' = Null
              /\ surveyResults' = Null ]_vars

\* C10: sending an empty or whitespace-only message, in the check-in flow or in
\* the CBT flow, appends no message, issues no request and leaves the loading
\* flag, the next steps and the session id of the flow as they were.
\* (SpecMessaging)
C10_BlankSendChangesNothing ==
    [][ /\ (ev'.op = "sendCheckInMessage" /\ Trim(ev'.message) = <<>>)
              => UNCHANGED <<checkInMessages, checkInRequests, checkInLoading,
                             checkInNextSteps, checkInSessionId>>
        /\ (ev'.op = "sendCBTMessage" /\ Trim(ev'.message) = <<>>)
              => UNCHANGED <<cbtMessages, cbtRequests, cbtLoading,
                             cbtNextSteps, cbtSessionId>> ]_vars

\* a user sent a whitespace-only check-in message with nothing in flight and a
\* conversation under way
C10_Witness ==
    /\ ev.op = "sendCheckInMessage"
    /\ ev.message = <<" ">>
    /\ user # Null
    /\ ~checkInLoading
    /\ checkInMessages # <<>>

\* the number of start-new requests among the requests in flight
StartNewRequests(requests) ==
    Cardinality({i \in 1..Len(requests) : requests[i].op = "startNew"})

\* C11: when the request of resumeCheckIn is rejected, exactly one start-new
\* request, with a null session id, is issued in its place; when a start-new
\* request succeeds, checkInMessages is exactly one welcome bot message with the
\* reply of the response and checkInSessionId is the id of the response.
\* (SpecCheckIn)
C11_ResumeFallsBackToStartNew ==
    [][ /\ (ev'.op = "checkInRejected" /\ ev'.handler = "resume")
              => /\ Len(checkInRequests') = Len(checkInRequests)
                 /\ StartNewRequests(checkInRequests') = StartNewRequests(checkInRequests) + 1
                 /\ checkInRequests'[Len(checkInRequests')] =
                        ChatRequest("startNew", NoMessage, Null, "non-clinical")
                 /\ checkInSessionId' = Null
                 /\ checkInMessages' = <<>>
        /\ (ev'.op = "checkInResolved" /\ ev'.handler = "startNew")
              => /\ checkInMessages' = <<Message("welcome", ev'.resp.response, "bot")>>
                 /\ checkInSessionId' = ev'.resp.session_id ]_vars

\* a resume was rejected: the session id is dropped and the start-new request
\* that replaces it is in flight
C11_Witness ==
    /\ ev.op = "checkInRejected"
    /\ ev.handler = "resume"
    /\ checkInSessionId = Null
    /\ ls_checkInSessionId = Null
    /\ checkInRequests # <<>>
    /\ checkInRequests[Len(checkInRequests)].op = "startNew"

-----------------------------------------------------------------------------
(***************************************************************************)
(* Properties of the auth container (checked under SpecAuth)               *)
(***************************************************************************)
\* C8: a login whose token request succeeds stores both tokens before it asks
\* for the current user, so that request carries the new access token; when
\* that request succeeds too, the user is the fetched record and the route is
\* /home.
C8_LoginStoresThenFetches ==
    [][ /\ ev'.op = "loginTokenResolved"
              => /\ ls_access_token' = ev'.pair.access_token
                 /\ ls_refresh_token' = ev'.pair.refresh_token
                 /\ authRequests' # <<>>
                 /\ authRequests'[Len(authRequests')] =
                        AuthRequest("login.user", ev'.pair.access_token)
        /\ ev'.op = "loginUserResolved"
              => /\ user' = ev'.userData
                 /\ route' = "/home"
                 /\ UNCHANGED tokenVars ]_vars

\* a login went through: the tokens are stored, the user is set, the route is /home
C8_Witness ==
    /\ ev.op = "loginUserResolved"
    /\ user = ev.userData
    /\ route = "/home"
    /\ \E p \in TokenPairs : TokensAre(p)

ChatCleared ==
    /\ checkInSessionId = Null /\ checkInMessages = <<>> /\ checkInNextSteps = <<>>
    /\ cbtSessionId = Null /\ cbtMessages = <<>> /\ cbtNextSteps = <<>>
    /\ surveyMode = FALSE /\ surveyQuestionnaireOptions = <<>>
    /\ currentSurveyQuestion = Null /\ currentQuestionIndex = NoNumber
    /\ totalQuestions = NoNumber /\ possibleAnswers = <<>>
    /\ currentQuestionnaireId = Null /\ surveyResults = Null
    /\ ls_checkInSessionId = Null /\ ls_cbtSessionId = Null

\* the request issued last is of kind op
LastAuthRequestIs(op) ==
    /\ authRequests # <<>>
    /\ authRequests[Len(authRequests)].op = op

\* C12: in every logout the chat-clear callback has run by the time the backend
\* logout request is issued: in the state where the request is first in flight
\* the chat state is cleared. (SpecSession)
C12_ClearBeforeLogoutRequest ==
    [][ ev'.op = "logout" => (LastAuthRequestIs("logout")' /\ ChatCleared') ]_vars

\* a logout was called while a check-in session was open: its request is in
\* flight, the user is still set and the chat state is cleared
C12_Witness ==
    /\ ev.op = "logout"
    /\ LastAuthRequestIs("logout")
    /\ user # Null
    /\ ChatCleared
    /\ ~checkInLoading /\ checkInRequests = <<>>
    /\ cbtRequests # <<>>

\* C13: when logout finishes, the user is null and neither token is in storage,
\* whether the backend call succeeded or failed, and logout does not reject.
\* (SpecAuth)
C13_LogoutAlwaysClears ==
    [][ ev'.op = "logoutSettled"
           => /\ user' = Null
              /\ ls_access_token' = Null
              /\ ls_refresh_token' = Null
              /\ ~ev'.thrown ]_vars

\* a logout whose backend call failed has finished
C13_Witness ==
    /\ ev.op = "logoutSettled"
    /\ ~ev.ok
    /\ user = Null
    /\ TokensAre(NoTokens)

\* no user and no login under way
LoggedOut ==
    /\ user = Null
    /\ \A i \in 1..Len(authRequests) : authRequests[i].op \notin {"login.token", "login.user"}

\* none of the four persisted keys is in storage
KeysAbsent ==
    /\ TokensAre(NoTokens)
    /\ ls_checkInSessionId = Null
    /\ ls_cbtSessionId = Null

\* C14: when a logout completes none of the four persisted keys is in storage,
\* and none appears afterwards until a login. (SpecSession)
C14_Original ==
    [][ /\ ev'.op = "logoutSettled" => KeysAbsent'
        /\ (LoggedOut /\ KeysAbsent
              /\ ev'.op \notin {"login", "loginTokenResolved", "loginUserResolved"})
              => KeysAbsent' ]_vars

\* C15: when the inactivity timer expires, the chat state is cleared and the
\* backend logout is attempted; when that call settles, either way, the user is
\* null, both tokens are removed and the route is the login route. (SpecSession)
C15_ExpiryLogsOut ==
    [][ /\ ev'.op = "timerExpires"
              => (LastAuthRequestIs("expiry.logout")' /\ ChatCleared')
        /\ ev'.op = "expirySettled"
              => /\ user' = Null
                 /\ ls_access_token' = Null
                 /\ ls_refresh_token' = Null
                 /\ route' = "/login" ]_vars

\* the logout of an expired timer has finished after a failed backend call
C15_Witness ==
    /\ ev.op = "expirySettled"
    /\ ~ev.ok
    /\ user = Null
    /\ TokensAre(NoTokens)
    /\ route = "/login"

\* C16 as stated: with a user present exactly one inactivity timer is armed, with
\* no user none is. (SpecAuth)
C16_Original ==
    /\ user # Null => (inactivityTimer.armed = 1 /\ inactivityTimer.ref = "armed")
    /\ user = Null => inactivityTimer.armed = 0

\* the logout started by an expired timer is under way
ExpiryLogoutPending ==
    \E i \in 1..Len(authRequests) : authRequests[i].op = "expiry.logout"

\* C16: never more than one timer is armed, and the armed one is the one the ref
\* holds; with no user none is armed; with a user present exactly one is armed,
\* except after the timer has expired, while the logout it started is under way;
\* each activity event leaves exactly one, fresh, timer armed. (SpecAuth)
C16_TimerArmedWithUser ==
    /\ [](/\ inactivityTimer.armed <= 1
          /\ (inactivityTimer.armed = 1) <=> (inactivityTimer.ref = "armed")
          /\ user = Null => inactivityTimer.armed = 0
          /\ user # Null =>
                \/ inactivityTimer.armed = 1
                \/ (inactivityTimer.ref = "fired" /\ ExpiryLogoutPending))
    /\ [][ ev'.op = "activity" => inactivityTimer' = ArmTimer(NoTimer) ]_vars

\* an activity event re-armed the timer after an earlier timer had expired and
\* before the logout it started has finished
C16_Witness ==
    /\ ev.op = "activity"
    /\ user # Null
    /\ inactivityTimer = ArmTimer(NoTimer)
    /\ ExpiryLogoutPending

\* C17: once the effects of the mount have run, in every state the stored
\* check-in (resp. CBT) session id equals the id the container holds, the key
\* being absent exactly when the container holds null. (SpecReload)
C17_StorageMirrorsSessionIds ==
    hasRegisteredClearChatState
        => /\ ls_checkInSessionId = checkInSessionId
           /\ ls_cbtSessionId = cbtSessionId

\* a greeting has set the check-in session id, which is stored, while no CBT
\* session id is held or stored
C17_Witness ==
    /\ hasRegisteredClearChatState
    /\ ev.op = "checkInResolved"
    /\ checkInSessionId = ev.resp.session_id
    /\ ls_checkInSessionId = ev.resp.session_id
    /\ cbtSessionId = Null
    /\ ls_cbtSessionId = Null

\* C18: the application was loaded with session ids in storage and a valid
\* access token: when the authentication check completes, first thing after the
\* load, the container holds the ids that were stored. (SpecReload)
C18_Original ==
    [][ (ev.op = "mount" /\ ev'.op = "checkAuthResolved")
           => /\ checkInSessionId' = StoredCheckInId
              /\ cbtSessionId' = StoredCbtId ]_vars

\* the transcript ends with the user message m immediately followed by the bot
\* reply r
EndsWithExchange(transcript, m, r) ==
    LET n == Len(transcript) IN
    /\ n >= 2
    /\ transcript[n - 1].sender = "user" /\ transcript[n - 1].content = m
    /\ transcript[n].sender = "bot" /\ transcript[n].content = r

\* the accepted send of m appended the user message to the transcript `before`
\* and issued a request carrying m
UserMessageThenRequest(before, after, requests, m) ==
    /\ after = Append(before, Message("user", m, "user"))
    /\ requests # <<>>
    /\ requests[Len(requests)].message = ChatText(m)

\* C19: in both flows an accepted send of m appends the user message before the
\* request is issued, and when the backend replies r the transcript ends with the
\* user message m followed by the bot reply r. (SpecMessaging)
C19_Original ==
    [][ /\ (ev'.op = "sendCheckInMessage" /\ SendCheckInAccepted(ev'.message))
              => UserMessageThenRequest(checkInMessages, checkInMessages',
                                        checkInRequests', ev'.message)
        /\ (ev'.op = "sendCBTMessage" /\ SendCBTAccepted(ev'.message))
              => UserMessageThenRequest(cbtMessages, cbtMessages',
                                        cbtRequests', ev'.message)
        /\ (ev'.op = "checkInResolved" /\ ev'.handler = "send")
              => EndsWithExchange(checkInMessages', ev'.message.text, ev'.resp.response)
        /\ (ev'.op = "cbtResolved" /\ ev'.handler \in {"send", "sendNoSession"})
              => EndsWithExchange(cbtMessages', ev'.message.text, ev'.resp.response)
      ]_vars

\* C20: after each successful response of a flow (start-new, resume,
\* send-message, next-step selection) the flow's next-step list is exactly the
\* list derived from that response's next_steps, empty when it carries none.
\* (SpecCheckIn)
C20_Original ==
    [][ /\ ev'.op = "checkInResolved"
              => checkInNextSteps' = MapNextSteps(ev'.resp.next_steps)
        /\ ev'.op = "cbtResolved"
              => cbtNextSteps' = MapNextSteps(ev'.resp.next_steps) ]_vars

\* C21: when the one outstanding request of a chat action fails right after the
\* action was invoked, the failure is handled inside the action and the flow's
\* session id, messages, next-step suggestions and survey fields afterwards equal
\* their values from before the invocation. (SpecCheckIn)
C21_Original ==
    [][ /\ ( /\ ev.op \in CheckInFlowActions
             /\ ev.accepted
             /\ Len(checkInRequests) = 1
             /\ ev'.op \in {"checkInRejected", "surveyRejected"} )
              => CheckInFields' = ev.before
        /\ ( /\ ev.op \in CBTFlowActions
             /\ ev.accepted
             /\ Len(cbtRequests) = 1
             /\ ev'.op = "cbtRejected" )
              => CbtFields' = ev.before ]_vars

\* C22: in every state a flow's loading flag is false when no request of the
\* flow is outstanding (every handler has reset it on its way out) and true
\* whenever a request of the flow is outstanding. (SpecCheckIn)
C22_Original ==
    /\ checkInLoading <=> (checkInRequests # <<>>)
    /\ cbtLoading <=> (cbtRequests # <<>>)

\* C23: an answer given in the survey dialog is submitted with the current
\* question index, the selected questionnaire and the check-in session id; its
\* response stores the question index and the result it carries; and no answer
\* request is issued while a result is stored. (SpecDialog)
C23_AnswerLoopEndsWithResult ==
    [][ /\ (ev'.op = "answerSurveyQuestion" /\ ev'.accepted)
              => /\ surveyResults = Null
                 /\ checkInRequests'[Len(checkInRequests')] =
                       ChatRequest("answerSurveyQuestion",
                                   [kind |-> "answer",
                                    questionnaire |-> currentQuestionnaireId,
                                    index |-> currentQuestionIndex[1],
                                    score |-> ev'.answerScore.num],
                                   checkInSessionId, "survey")
        /\ (ev'.op = "surveyResolved" /\ ev'.handler = "answerSurveyQuestion")
              => /\ ev'.question_index # Absent
                       => currentQuestionIndex' = ev'.question_index
                 /\ ev'.survey_results # Absent
                       => surveyResults' = ev'.survey_results[1]
        /\ (surveyResults # Null /\ Len(checkInRequests') > Len(checkInRequests))
              => ev'.op = "startSurvey" ]_vars

\* the response to an answer has stored a terminal result while the dialog still
\* holds a question and its possible answers
C23_Witness ==
    /\ ev.op = "surveyResolved"
    /\ ev.handler = "answerSurveyQuestion"
    /\ surveyResults # Null
    /\ ~Falsy(currentSurveyQuestion)
    /\ possibleAnswers # <<>>
    /\ currentQuestionnaireId # Null
    /\ ~checkInLoading

\* C24: a protected page is left for the login route as soon as the auth
\* container is not loading and has no user, and a page's redirect never happens
\* while a user is held or the loading flag is up. Every step that takes the
\* browser from another route to the login route, other than a navigation to the
\* login route itself, ends with no user, and with the loading flag down unless
\* the push is the one of the inactivity timer of AuthProvider.
C24_ProtectedPagesRedirect ==
    /\ [](route \in ProtectedRoutes => (isLoading \/ user # Null))
    /\ [][ (/\ route' = "/login"
            /\ route # "/login"
            /\ ~(ev'.op = "navigate" /\ ev'.to = "/login"))
           => (user' = Null /\ (~isLoading' \/ ev'.op = "expirySettled")) ]_vars

C24_Witness ==
    /\ ev.op = "checkAuthRejected"
    /\ route = "/login"
    /\ user = Null
    /\ ~isLoading

\* the request a step has put in flight, if any: requests are appended, and a
\* settled one is removed in the same step
Issued(before, after) ==
    IF after # <<>> /\ (\/ Len(after) > Len(before)
                        \/ (Len(after) = Len(before) /\ after # before))
      THEN {after[Len(after)]}
      ELSE {}

\* C25: every request put in flight by send-message, next-step,
\* select-questionnaire or answer-question carries the session id its flow holds
\* once the step is done: the CBT id for CBT requests, the check-in id for
\* check-in and survey requests.
C25_Original ==
    [][ /\ \A req \in Issued(cbtRequests, cbtRequests') :
              req.op \in {"send", "sendNoSession", "next"}
                 => req.session_id = cbtSessionId'
        /\ \A req \in Issued(checkInRequests, checkInRequests') :
              req.op \in {"send", "next", "selectQuestionnaire", "answerSurveyQuestion"}
                 => req.session_id = checkInSessionId' ]_vars

\* s is a prefix of t
IsPrefix(s, t) == Len(s) <= Len(t) /\ SubSeq(t, 1, Len(s)) = s

\* the steps that are start-new or clear-chat-state: their invocation, also
\* through logout and the inactivity expiry, and the continuation of start-new
StartsOrClears(e) ==
    \/ e.op \in {"startNewCheckIn", "startNewCBT", "clearChatState", "logout",
                 "timerExpires", "mount"}
    \/ /\ e.op \in {"checkInResolved", "cbtResolved"}
       /\ e.handler \in {"startNew", "startThenSend"}

\* C26: the message list of each flow is append-only: every step other than
\* start-new and clear-chat-state keeps the messages held before as a prefix of
\* the messages held after, the error paths of send, next-step, resume and the
\* survey actions included.
C26_Original ==
    [][ ~StartsOrClears(ev') =>
           /\ IsPrefix(checkInMessages, checkInMessages')
           /\ IsPrefix(cbtMessages, cbtMessages') ]_vars

\* C27: the handling of a 401 ends after a bounded number of requests: when the
\* refresh exchange is itself answered 401, that answer ends the call, which has
\* made one refresh exchange and no more, with both tokens removed and the
\* browser sent to the login page.
C27_Original ==
    [][\A c \in Calls :
          (Answered(c, HttpUnauthorized) /\ Top(c).kind = "refresh") =>
              /\ httpCalls'[c].outcome = "error"
              /\ httpCalls'[c].refreshes <= 1
              /\ ls_access_token' = Null /\ ls_refresh_token' = Null
              /\ location' = "/login"]_vars

\* C28: with a chat page mounted for an authenticated user, the
\* initialise-or-resume effect issues a bounded number of automatic requests: once
\* a start-new request has settled, resolved or rejected, the step that follows is
\* not a request issued by the effect.
C28_Original ==
    [][ /\ (ev.op \in {"checkInResolved", "checkInRejected"} /\ ev.handler = "startNew")
           => ~(CheckInPageInitDue /\ Len(checkInRequests') > Len(checkInRequests))
        /\ (ev.op \in {"cbtResolved", "cbtRejected"} /\ ev.handler = "startNew")
           => ~(CBTPageInitDue /\ Len(cbtRequests') > Len(cbtRequests)) ]_vars

\* C29: the stored token pair is consistent in every state: the access token and
\* the refresh token are both in storage or both absent, whatever the order in
\* which login, logout, inactivity expiry, the refresh exchange and the
\* authentication check touch them.
C29_TokenPairConsistent ==
    (ls_access_token = Null) <=> (ls_refresh_token = Null)

\* a refresh exchange stored a new pair after a login had stored another
C29_Witness ==
    /\ ev.op = "answer"
    /\ ev.status = HttpOk
    /\ httpCalls[1].refreshes > 0
    /\ ls_access_token # Null
    /\ ls_refresh_token # Null
    /\ user # Null

\* the events of the check-in flow and its survey sub-flow, and those of the CBT
\* flow: the actions and the settling of their requests
CheckInFlowEvents ==
    CheckInFlowActions \cup
      {"closeSurvey", "checkInResolved", "checkInRejected", "surveyResolved", "surveyRejected"}
CBTFlowEvents == CBTFlowActions \cup {"cbtResolved", "cbtRejected"}

\* C30: the two chat flows do not interfere: every step of the check-in flow and
\* of its survey sub-flow leaves cbtSessionId, cbtMessages, cbtNextSteps and
\* cbtLoading unchanged, and every step of the CBT flow leaves the check-in
\* session id, messages, next steps, loading flag and every survey field
\* unchanged.
C30_FlowsDoNotInterfere ==
    [][ /\ ev'.op \in CheckInFlowEvents
           => UNCHANGED <<cbtSessionId, cbtMessages, cbtNextSteps, cbtLoading>>
        /\ ev'.op \in CBTFlowEvents
           => UNCHANGED <<checkInSessionId, checkInMessages, checkInNextSteps,
                          checkInLoading, surveyVars>> ]_vars

\* a new check-in was started while the CBT flow held a session, a transcript and
\* a request in flight, and a survey was open
C30_Witness ==
    /\ ev.op = "startNewCheckIn"
    /\ ev.accepted
    /\ cbtSessionId # Null
    /\ cbtMessages # <<>>
    /\ cbtLoading
    /\ surveyMode

=========================================================================
